---- MODULE Spec2Model ----
(***************************************************************************)
(* MonsterWar: the per-tick combat core of GameScene.                      *)
(*                                                                         *)
(* One frame is: input callbacks, GameScene::update (the systems, in the   *)
(* order of the source), then the drain of the event dispatcher.  The      *)
(* registry is modelled as one function per component type over a finite   *)
(* pool of entity handles; a destroyed handle is never valid again.        *)
(* Positions are integer pixel vectors, time is counted in integer units   *)
(* of delta_time, speeds are pixels per unit.                              *)
(***************************************************************************)
EXTENDS Integers, Sequences, FiniteSets, TLC

----------------------------------------------------------------------------
(* Bounds of the model *)

\* number of player units the input callbacks may create in one run
MaxPlayers == 2

\* number of allies that stand around the healer in the healer scenario
HealerAllies == 2

\* number of AnimationFinished events queued when a drain starts in the handler scenario
MaxQueued == 2

----------------------------------------------------------------------------
(* Program constants *)

\* constexpr float UNIT_RADIUS = 16.0f
UNIT_RADIUS == 16

\* if (glm::length(direction) < 5.0f)
ArrivalThreshold == 5

\* entt::null
Null == 0

----------------------------------------------------------------------------
(* Entities and blueprints *)

\* createTestEnemy: the enemies created at the start point, by handle
Enemies == {1, 2}

\* handles of the player units: as many as the larger scenario creates
PlayerSlots ==
    3 .. (2 + (IF MaxPlayers > HealerAllies + 1 THEN MaxPlayers ELSE HealerAllies + 1))

Ents == Enemies \cup PlayerSlots

EnemyKinds == {"enemy_melee", "enemy_ranged"}

PlayerKinds == {"warrior", "archer", "witch"}

Kinds == EnemyKinds \cup PlayerKinds \cup {"none"}

\* blueprint of the enemy created for each handle (wolf: melee, dark_witch: ranged)
EnemyKindOf(e) == IF e = 1 THEN "enemy_melee" ELSE "enemy_ranged"

\* StatsComponent::range_ as set by addStatsComponent from the blueprint
StatsRange(k) ==
    CASE k = "enemy_melee"  -> 4
      [] k = "enemy_ranged" -> 14
      [] k = "warrior"      -> 4
      [] k = "archer"       -> 8
      [] k = "witch"        -> 14
      [] OTHER              -> 0

\* StatsComponent::atk_interval_ as set by addStatsComponent from the blueprint
StatsAtkInterval(k) ==
    CASE k = "enemy_melee"  -> 1
      [] k = "enemy_ranged" -> 2
      [] k = "warrior"      -> 1
      [] k = "archer"       -> 2
      [] k = "witch"        -> 2
      [] OTHER              -> 0

\* EnemyComponent::speed_ as set by addEnemyComponent from the blueprint
EnemySpeed(k) == IF k \in EnemyKinds THEN 20 ELSE 0

\* the values of delta_time a frame may have
DtValues == {1}

\* logical mouse positions at which the input callbacks create player units
SpawnPositions == {<<20, 20>>}

----------------------------------------------------------------------------
(* Waypoint graph: std::unordered_map<int, WaypointNode> waypoint_nodes_ *)

\* an id that is not a key of the graph
UnknownId == 99

\* nodes 0 to 3 are the path of the level; nodes 10 to 13 are a second path,
\* not connected to the first, whose data is malformed: node 12 lies within
\* the arrival threshold of node 10 and names a node that does not exist;
\* nodes 20 and 21 are a closed patrol loop
WaypointIds == {0, 1, 2, 3, 10, 11, 12, 13, 20, 21}

waypoint_nodes ==
    [i \in WaypointIds |->
        CASE i = 0  -> [position_ |-> <<0, 0>>,    next_node_ids_ |-> <<1>>]
          [] i = 1  -> [position_ |-> <<20, 0>>,   next_node_ids_ |-> <<2, 3>>]
          [] i = 2  -> [position_ |-> <<40, 0>>,   next_node_ids_ |-> <<>>]
          [] i = 3  -> [position_ |-> <<20, 20>>,  next_node_ids_ |-> <<>>]
          [] i = 10 -> [position_ |-> <<100, 0>>,  next_node_ids_ |-> <<11, 12>>]
          [] i = 11 -> [position_ |-> <<120, 0>>,  next_node_ids_ |-> <<>>]
          [] i = 12 -> [position_ |-> <<104, 0>>,  next_node_ids_ |-> <<13, UnknownId>>]
          [] i = 13 -> [position_ |-> <<140, 0>>,  next_node_ids_ |-> <<>>]
          [] i = 20 -> [position_ |-> <<200, 0>>,  next_node_ids_ |-> <<21>>]
          [] i = 21 -> [position_ |-> <<220, 0>>,  next_node_ids_ |-> <<20>>]]

\* start_points_
StartPoint == 0

----------------------------------------------------------------------------
(* glm vectors.  NaN stands for a vector whose components are NaN. *)

NaN == <<"nan">>

Zero == <<0, 0>>

IsNaN(v) == Len(v) = 1

VecSub(a, b) == IF IsNaN(a) \/ IsNaN(b) THEN NaN ELSE <<a[1] - b[1], a[2] - b[2]>>

VecAdd(a, b) == IF IsNaN(a) \/ IsNaN(b) THEN NaN ELSE <<a[1] + b[1], a[2] + b[2]>>

VecScale(a, k) == IF IsNaN(a) THEN NaN ELSE <<a[1] * k, a[2] * k>>

Sign(n) == IF n > 0 THEN 1 ELSE IF n < 0 THEN -1 ELSE 0

\* squared length; callers test IsNaN first
LengthSquared(v) == v[1] * v[1] + v[2] * v[2]

\* engine::utils::distanceSquared
distanceSquared(a, b) == LengthSquared(VecSub(a, b))

\* glm::normalize: v * inversesqrt(dot(v, v)); 0 * inf is NaN.  The level
\* geometry keeps every direction on an axis, where the result is exact.
Normalize(v) ==
    CASE IsNaN(v)             -> NaN
      [] v = Zero             -> NaN
      [] v[2] = 0 /\ v[1] # 0 -> <<Sign(v[1]), 0>>
      [] v[1] = 0 /\ v[2] # 0 -> <<0, Sign(v[2])>>

\* mutant: a distance equal to the threshold counts as arrived
WithinArrivalInclusive(direction) ==
    /\ ~IsNaN(direction)
    /\ LengthSquared(direction) <= ArrivalThreshold * ArrivalThreshold

\* glm::length(direction) < 5.0f; a comparison with NaN is false
WithinArrival(direction) ==
    /\ ~IsNaN(direction)
    /\ LengthSquared(direction) < ArrivalThreshold * ArrivalThreshold

\* distanceSquared(a, b) <= range_radius * range_radius, range_radius = range_ + UNIT_RADIUS
InRange(a, b, range) ==
    /\ ~IsNaN(a) /\ ~IsNaN(b)
    /\ distanceSquared(a, b) <= (range + UNIT_RADIUS) * (range + UNIT_RADIUS)

\* mutant: a referent exactly at the bound counts as out of range
OutOfRangeInclusive(a, b, range) ==
    /\ ~IsNaN(a) /\ ~IsNaN(b)
    /\ distanceSquared(a, b) >= (range + UNIT_RADIUS) * (range + UNIT_RADIUS)

\* distanceSquared(a, b) > range_radius * range_radius
OutOfRange(a, b, range) ==
    /\ ~IsNaN(a) /\ ~IsNaN(b)
    /\ distanceSquared(a, b) > (range + UNIT_RADIUS) * (range + UNIT_RADIUS)

----------------------------------------------------------------------------
(* Sequences *)

RECURSIVE SetToSeqDesc(_)
\* the members of a set of handles, most recently created first
SetToSeqDesc(S) ==
    IF S = {} THEN <<>>
    ELSE LET m == CHOOSE x \in S : \A y \in S : y <= x
         IN <<m>> \o SetToSeqDesc(S \ {m})

\* iteration order of an entt view over the entities of S
ViewOrder(S) == SetToSeqDesc(S)

IsPrefix(s, t) == Len(s) <= Len(t) /\ SubSeq(t, 1, Len(s)) = s

Range(s) == {s[i] : i \in 1 .. Len(s)}

----------------------------------------------------------------------------
(* State *)

VARIABLES
    pc,                  \* the step of the frame that runs next
    delta_time,          \* the argument of GameScene::update in this frame (0 outside update)
    alive,               \* handles for which registry.valid holds
    kind,                \* blueprint each entity was created from
    spawned,             \* number of player units created so far
    position_,           \* TransformComponent::position_
    velocity_,           \* VelocityComponent::velocity_
    atk_timer_,          \* StatsComponent::atk_timer_
    hp_,                 \* StatsComponent::hp_
    target_waypoint_id_, \* EnemyComponent::target_waypoint_id_
    target,              \* TargetComponent::entity_ (Null: no TargetComponent)
    blocked_by,          \* BlockedByComponent::entity_ (Null: no BlockedByComponent)
    DeadTag, AttackReadyTag, ActionLockTag, InjuredTag,
    is_flipped_,         \* SpriteComponent::sprite_.is_flipped_
    animation,           \* what the animation playback shows for each entity
    queue,               \* events enqueued in the dispatcher, oldest first
    err,                 \* "none", or the fatal error the program stopped with
    ran,                 \* history: steps of GameScene::update completed in this frame
    dead_at_end,         \* history: entities that carried DeadTag when the last frame ended
    handled,             \* history: <<entity, group>> pairs of the last AttackStarterSystem run
    stale,               \* history: holders whose destroyed referent the last validation found
    dropped,             \* history: holders whose TargetComponent the last validation removed
    pending,             \* history: entities that held AttackReadyTag when the last TimerSystem run started
    acquired,            \* history: entities the acquisition passes of this frame attached a TargetComponent to
    ticks_waited         \* history: TimerSystem runs since the entity's last dispatch, counted up to its atk_interval_

ctlVars == <<pc, delta_time, err, ran>>

entVars == <<alive, kind, spawned>>

moveVars == <<position_, velocity_, target_waypoint_id_>>

statVars == <<atk_timer_, hp_, ticks_waited>>

refVars == <<target, blocked_by>>

tagVars == <<DeadTag, AttackReadyTag, ActionLockTag, InjuredTag>>

viewVars == <<is_flipped_, animation>>

histVars == <<dead_at_end, handled, stale, dropped, pending, acquired>>

vars == <<ctlVars, entVars, moveVars, statVars, refVars, tagVars, viewVars, queue, histVars>>

----------------------------------------------------------------------------
(* Components by presence *)

HasEnemyComponent(e) == e \in alive /\ kind[e] \in EnemyKinds

HasPlayerComponent(e) == e \in alive /\ kind[e] \in PlayerKinds

\* createEnemyUnit / createPlayerUnit attach Transform, Velocity, Sprite and Stats to every unit
HasTransformComponent(e) == e \in alive

HasStatsComponent(e) == e \in alive

HasRangedUnitTag(e) == e \in alive /\ kind[e] \in {"enemy_ranged", "archer", "witch"}

HasHealerTag(e) == e \in alive /\ kind[e] = "witch"

\* sprite_.face_right_ == false in the blueprint
HasFaceLeftTag(e) == e \in alive /\ kind[e] \in {"enemy_ranged", "archer"}

HasTargetComponent(e) == e \in alive /\ target[e] # Null

HasBlockedByComponent(e) == e \in alive /\ blocked_by[e] # Null

\* StatsComponent::max_hp_
MaxHp(k) == IF k = "none" THEN 0 ELSE 4

----------------------------------------------------------------------------
(* Order of the frame *)

\* mutant: the cooldown timer is called after the dispatch
UpdateOrderTimerLate ==
    <<"remove_dead", "follow_path", "block", "set_target", "attack_starter",
      "timer", "movement", "animation", "orientation", "ysort">>

\* mutant: the movement is applied between Target Acquisition and Attack Dispatch
UpdateOrderMovementBeforeDispatch ==
    <<"remove_dead", "follow_path", "block", "set_target", "timer",
      "movement", "attack_starter", "animation", "orientation", "ysort">>

\* mutant: dead entities are removed right after Path Navigation
UpdateOrderRemovalAfterPath ==
    <<"follow_path", "remove_dead", "block", "set_target", "timer",
      "attack_starter", "movement", "animation", "orientation", "ysort">>

\* mutant: the dead entities are removed after all other systems
UpdateOrderRemovalLast ==
    <<"follow_path", "block", "set_target", "timer", "attack_starter",
      "movement", "animation", "orientation", "ysort", "remove_dead">>

\* GameScene::update: the systems in call order
UpdateOrder ==
    <<"remove_dead", "follow_path", "block", "set_target", "timer",
      "attack_starter", "movement", "animation", "orientation", "ysort">>

\* SetTargetSystem::update: the passes in call order
SetTargetOrder ==
    <<"updateHasTarget", "updateNoTargetPlayer", "updateNoTargetEnemy", "updateHealer">>

RECURSIVE Expand(_)
\* the steps of one update: each system, Target Acquisition as its passes
Expand(s) ==
    IF s = <<>> THEN <<>>
    ELSE (IF Head(s) = "set_target" THEN SetTargetOrder ELSE <<Head(s)>>) \o Expand(Tail(s))

Steps == Expand(UpdateOrder)

\* the step that follows step name in the frame
StepAfter(name) ==
    LET i == CHOOSE j \in 1 .. Len(Steps) : Steps[j] = name
    IN IF i = Len(Steps) THEN "dispatcher" ELSE Steps[i + 1]

\* step name runs now: control has reached it and the program has not failed
At(name) == pc = name /\ err = "none"

\* step name completes: control moves to the next call
Done(name) ==
    /\ pc' = StepAfter(name)
    /\ ran' = Append(ran, name)

----------------------------------------------------------------------------
(* Initial state: GameScene::init has run (loadLevel, createTestEnemy) *)

Init ==
    /\ pc = "input"
    /\ delta_time = 0
    /\ alive = Enemies
    /\ kind = [e \in Ents |-> IF e \in Enemies THEN EnemyKindOf(e) ELSE "none"]
    /\ spawned = 0
    /\ position_ = [e \in Ents |->
            IF e \in Enemies THEN waypoint_nodes[StartPoint].position_ ELSE Zero]
    /\ velocity_ = [e \in Ents |-> Zero]
    /\ atk_timer_ = [e \in Ents |-> 0]
    /\ ticks_waited = [e \in Ents |-> 0]
    /\ hp_ = [e \in Ents |-> IF e \in Enemies THEN MaxHp(EnemyKindOf(e)) ELSE 0]
    /\ target_waypoint_id_ = [e \in Ents |-> StartPoint]
    /\ target = [e \in Ents |-> Null]
    /\ blocked_by = [e \in Ents |-> Null]
    /\ DeadTag = {}
    /\ AttackReadyTag = {}
    /\ ActionLockTag = {}
    /\ InjuredTag = {}
    /\ is_flipped_ = [e \in Ents |-> FALSE]
    /\ animation = [e \in Ents |->
            IF e \in Enemies THEN [id |-> "walk", loop |-> TRUE, playing |-> FALSE]
            ELSE [id |-> "none", loop |-> TRUE, playing |-> FALSE]]
    /\ queue = <<>>
    /\ err = "none"
    /\ ran = <<>>
    /\ dead_at_end = {}
    /\ handled = {}
    /\ stale = {}
    /\ dropped = {}
    /\ pending = {}
    /\ acquired = {}

----------------------------------------------------------------------------
(* registry.destroy: the entity becomes invalid and loses every component *)

Destroy(S) ==
    /\ alive' = alive \ S
    /\ kind' = [e \in Ents |-> IF e \in S THEN "none" ELSE kind[e]]
    /\ position_' = [e \in Ents |-> IF e \in S THEN Zero ELSE position_[e]]
    /\ velocity_' = [e \in Ents |-> IF e \in S THEN Zero ELSE velocity_[e]]
    /\ atk_timer_' = [e \in Ents |-> IF e \in S THEN 0 ELSE atk_timer_[e]]
    /\ hp_' = [e \in Ents |-> IF e \in S THEN 0 ELSE hp_[e]]
    /\ ticks_waited' = [e \in Ents |-> IF e \in S THEN 0 ELSE ticks_waited[e]]
    /\ target_waypoint_id_' = [e \in Ents |-> IF e \in S THEN StartPoint ELSE target_waypoint_id_[e]]
    /\ target' = [e \in Ents |-> IF e \in S THEN Null ELSE target[e]]
    /\ blocked_by' = [e \in Ents |-> IF e \in S THEN Null ELSE blocked_by[e]]
    /\ DeadTag' = DeadTag \ S
    /\ AttackReadyTag' = AttackReadyTag \ S
    /\ ActionLockTag' = ActionLockTag \ S
    /\ InjuredTag' = InjuredTag \ S
    /\ is_flipped_' = [e \in Ents |-> IF e \in S THEN FALSE ELSE is_flipped_[e]]
    /\ animation' = [e \in Ents |->
            IF e \in S THEN [id |-> "none", loop |-> TRUE, playing |-> FALSE] ELSE animation[e]]

----------------------------------------------------------------------------
(* The frame loop calls GameScene::update(delta_time) *)

Update ==
    /\ At("input")
    /\ \E dt \in DtValues : delta_time' = dt
    /\ pc' = Steps[1]
    /\ ran' = <<>>
    /\ UNCHANGED <<err, entVars, moveVars, statVars, refVars, tagVars, viewVars, queue, histVars>>

----------------------------------------------------------------------------
(* RemoveDeadSystem::update *)

\* mutant: destroying while iterating ends the loop after the first entity
RemoveDeadViewFirstOnly ==
    {e \in alive : e \in DeadTag /\ \A f \in alive : f \in DeadTag => f <= e}

\* registry.view<defs::DeadTag>()
RemoveDeadView == {e \in alive : e \in DeadTag}

RemoveDeadSystem ==
    /\ At("remove_dead")
    /\ Destroy(RemoveDeadView)
    /\ Done("remove_dead")
    /\ UNCHANGED <<delta_time, err, spawned, queue, histVars>>

----------------------------------------------------------------------------
(* FollowPathSystem::update *)

EnemyArriveHomeEvent == [type |-> "EnemyArriveHome", entity |-> Null, animation_id |-> "none", loop |-> FALSE]

PlayAnimationEvent(e, id, loop) == [type |-> "PlayAnimation", entity |-> e, animation_id |-> id, loop |-> loop]

AnimationFinishedEvent(e) == [type |-> "AnimationFinished", entity |-> e, animation_id |-> "none", loop |-> FALSE]

\* registry.view<EnemyComponent, TransformComponent, VelocityComponent>()
FollowPathView == {e \in alive : HasEnemyComponent(e)}

\* waypoint_nodes.at(id) throws std::out_of_range
LookupFails(id) == id \notin DOMAIN waypoint_nodes

\* direction = target_node.position_ - transform.position_
DirectionTo(e, id) == VecSub(waypoint_nodes[id].position_, position_[e])

\* the enemy is within the threshold of its target node
Arrived(e) ==
    /\ ~LookupFails(target_waypoint_id_[e])
    /\ WithinArrival(DirectionTo(e, target_waypoint_id_[e]))

\* size == 0: the node reached has no next node
ArrivedHome(e) ==
    /\ Arrived(e)
    /\ waypoint_nodes[target_waypoint_id_[e]].next_node_ids_ = <<>>

\* the node reached has next nodes, one of which is drawn by randomInt(0, size - 1)
Branches(e) ==
    /\ Arrived(e)
    /\ waypoint_nodes[target_waypoint_id_[e]].next_node_ids_ # <<>>

\* mutant: the index may be one past the end of next_node_ids_
DrawsPastEnd(e) ==
    IF Branches(e)
    THEN Range(waypoint_nodes[target_waypoint_id_[e]].next_node_ids_) \cup {UnknownId}
    ELSE {target_waypoint_id_[e]}

\* the ids randomInt may select for e; its current id when no draw is made
Draws(e) ==
    IF Branches(e) THEN Range(waypoint_nodes[target_waypoint_id_[e]].next_node_ids_)
    ELSE {target_waypoint_id_[e]}

\* one of the two waypoint_nodes.at calls throws while e is processed
Throws(e, pick) ==
    \/ LookupFails(target_waypoint_id_[e])
    \/ Branches(e) /\ LookupFails(pick[e])

\* entities the loop processes to the end: those before the first throw
FollowPathProcessed(pick) ==
    LET order == ViewOrder(FollowPathView)
    IN {order[i] : i \in {j \in 1 .. Len(order) : \A k \in 1 .. j : ~Throws(order[k], pick)}}

\* mutant: a failed lookup is skipped silently
FollowPathThrowerNone(pick) == {}

\* the entity at which the loop throws, if any
FollowPathThrower(pick) ==
    LET order == ViewOrder(FollowPathView)
    IN {order[i] : i \in {j \in 1 .. Len(order) :
            Throws(order[j], pick) /\ \A k \in 1 .. (j - 1) : ~Throws(order[k], pick)}}

\* mutant: the direction is not recomputed against the node just chosen
FollowPathVelocityStale(e, id) ==
    VecScale(Normalize(DirectionTo(e, target_waypoint_id_[e])), EnemySpeed(kind[e]))

\* velocity.velocity_ = glm::normalize(direction) * enemy.speed_
FollowPathVelocity(e, id) == VecScale(Normalize(DirectionTo(e, id)), EnemySpeed(kind[e]))

RECURSIVE ArriveEvents(_)
\* one EnemyArriveHomeEvent for each entity of the sequence that reached its home
ArriveEvents(order) ==
    IF order = <<>> THEN <<>>
    ELSE (IF ArrivedHome(Head(order)) THEN <<EnemyArriveHomeEvent>> ELSE <<>>)
            \o ArriveEvents(Tail(order))

FollowPathSystem ==
    /\ At("follow_path")
    /\ \E pick \in [FollowPathView -> WaypointIds \cup {UnknownId}] :
        /\ \A e \in FollowPathView : pick[e] \in Draws(e)
        /\ LET done == FollowPathProcessed(pick)
               thrower == FollowPathThrower(pick)
           IN /\ target_waypoint_id_' = [e \in Ents |->
                    IF e \in done \/ (e \in thrower /\ Branches(e))
                    THEN pick[e] ELSE target_waypoint_id_[e]]
              /\ velocity_' = [e \in Ents |->
                    IF e \in done /\ ~ArrivedHome(e)
                    THEN FollowPathVelocity(e, pick[e]) ELSE velocity_[e]]
              /\ DeadTag' = DeadTag \cup {e \in done : ArrivedHome(e)}
              /\ queue' = queue \o ArriveEvents(SelectSeq(ViewOrder(FollowPathView), LAMBDA e : e \in done))
              /\ IF thrower = {}
                 THEN Done("follow_path") /\ err' = err
                 ELSE err' = "out_of_range" /\ UNCHANGED <<pc, ran>>
    /\ UNCHANGED <<delta_time, entVars, position_, statVars, refVars,
                   AttackReadyTag, ActionLockTag, InjuredTag, viewVars, histVars>>

----------------------------------------------------------------------------
(* BlockSystem::update: the melee-engagement detector.  It decides which   *)
(* enemies are engaged by which melee player unit; any decision within     *)
(* BLOCK_RADIUS is possible, and a relation may outlive its blocker.       *)

\* constexpr float BLOCK_RADIUS = 40.0f
BLOCK_RADIUS == 40

\* the melee player units that may engage enemy e
Blockers(e) ==
    {b \in alive : /\ kind[b] = "warrior"
                   /\ ~IsNaN(position_[e]) /\ ~IsNaN(position_[b])
                   /\ distanceSquared(position_[e], position_[b]) <= BLOCK_RADIUS * BLOCK_RADIUS}

BlockSystem ==
    /\ At("block")
    /\ \E rel \in [Ents -> Ents \cup {Null}] :
        /\ \A e \in Ents :
            IF HasEnemyComponent(e)
            THEN rel[e] \in {blocked_by[e], Null} \cup Blockers(e)
            ELSE rel[e] = blocked_by[e]
        /\ blocked_by' = rel
    /\ Done("block")
    /\ UNCHANGED <<delta_time, err, entVars, moveVars, statVars, target, tagVars,
                   viewVars, queue, histVars>>

----------------------------------------------------------------------------
(* SetTargetSystem *)

\* registry.view<TransformComponent, StatsComponent, TargetComponent>()
HasTargetView ==
    {e \in alive : HasTransformComponent(e) /\ HasStatsComponent(e) /\ HasTargetComponent(e)}

\* mutant: the validity of the referent is not checked
ReferentInvalidUnchecked(e) == FALSE

\* !registry.valid(target.entity_)
ReferentInvalid(e) == target[e] \notin alive

\* !registry.all_of<TransformComponent>(target.entity_), reached only after the validity check
ReferentLacksTransform(e) == ~ReferentInvalid(e) /\ ~HasTransformComponent(target[e])

\* registry.all_of / registry.get on an entity that is not valid
ReferentFault(e) == ~ReferentInvalid(e) /\ target[e] \notin alive

\* mutant: the distance of the referent is not checked
ReferentTooFarUnchecked(e) == FALSE

\* distanceSquared(self_pos, target_pos) > range_radius * range_radius
ReferentTooFar(e) ==
    /\ ~ReferentInvalid(e)
    /\ ~ReferentLacksTransform(e)
    /\ target[e] \in alive
    /\ OutOfRange(position_[e], position_[target[e]], StatsRange(kind[e]))

\* mutant: every TargetComponent is removed, to be acquired anew
InvalidatedAll == HasTargetView

\* the holders whose TargetComponent the validation pass removes
Invalidated ==
    {e \in HasTargetView : ReferentInvalid(e) \/ ReferentLacksTransform(e) \/ ReferentTooFar(e)}

updateHasTarget ==
    /\ At("updateHasTarget")
    /\ target' = [e \in Ents |-> IF e \in Invalidated THEN Null ELSE target[e]]
    /\ stale' = {e \in HasTargetView : ReferentInvalid(e)}
    /\ dropped' = Invalidated
    /\ IF \E e \in HasTargetView : ReferentFault(e)
       THEN err' = "invalid_entity" /\ UNCHANGED <<pc, ran>>
       ELSE err' = err /\ Done("updateHasTarget")
    /\ UNCHANGED <<delta_time, entVars, moveVars, statVars, blocked_by, tagVars,
                   viewVars, queue, dead_at_end, handled, pending, acquired>>

RECURSIVE FirstInRangeNoBreak(_, _)
\* mutant: the scan does not stop at the first match
FirstInRangeNoBreak(e, order) ==
    IF order = <<>> THEN Null
    ELSE LET rest == FirstInRangeNoBreak(e, Tail(order))
         IN IF rest # Null THEN rest
            ELSE IF InRange(position_[e], position_[Head(order)], StatsRange(kind[e]))
                 THEN Head(order)
                 ELSE Null

RECURSIVE FirstInRange(_, _)
\* the first entity of the sequence within range of e; Null when there is none
FirstInRange(e, order) ==
    IF order = <<>> THEN Null
    ELSE IF InRange(position_[e], position_[Head(order)], StatsRange(kind[e]))
         THEN Head(order)
         ELSE FirstInRange(e, Tail(order))

\* registry.view<TransformComponent, StatsComponent, PlayerComponent>(exclude<TargetComponent, HealerTag>)
NoTargetPlayerView ==
    {e \in alive : /\ HasTransformComponent(e) /\ HasStatsComponent(e) /\ HasPlayerComponent(e)
                   /\ ~HasTargetComponent(e) /\ ~HasHealerTag(e)}

\* registry.view<TransformComponent, EnemyComponent>()
EnemyCandidates == {e \in alive : HasTransformComponent(e) /\ HasEnemyComponent(e)}

updateNoTargetPlayer ==
    /\ At("updateNoTargetPlayer")
    /\ target' = [e \in Ents |->
            IF e \in NoTargetPlayerView
            THEN FirstInRange(e, ViewOrder(EnemyCandidates))
            ELSE target[e]]
    /\ acquired' = acquired \cup {e \in NoTargetPlayerView : target'[e] # Null}
    /\ Done("updateNoTargetPlayer")
    /\ UNCHANGED <<delta_time, err, entVars, moveVars, statVars, blocked_by, tagVars,
                   viewVars, queue, dead_at_end, handled, stale, dropped, pending>>

\* mutant: the view does not exclude TargetComponent
NoTargetEnemyViewUnfiltered ==
    {e \in alive : /\ HasTransformComponent(e) /\ HasStatsComponent(e) /\ HasEnemyComponent(e)
                   /\ HasRangedUnitTag(e)}

\* registry.view<TransformComponent, StatsComponent, EnemyComponent, RangedUnitTag>(exclude<TargetComponent>)
NoTargetEnemyView ==
    {e \in alive : /\ HasTransformComponent(e) /\ HasStatsComponent(e) /\ HasEnemyComponent(e)
                   /\ HasRangedUnitTag(e) /\ ~HasTargetComponent(e)}

\* mutant: the candidates are not restricted to player units
PlayerCandidatesAny == {e \in alive : HasTransformComponent(e)}

\* registry.view<TransformComponent, PlayerComponent>()
PlayerCandidates == {e \in alive : HasTransformComponent(e) /\ HasPlayerComponent(e)}

updateNoTargetEnemy ==
    /\ At("updateNoTargetEnemy")
    /\ target' = [e \in Ents |->
            IF e \in NoTargetEnemyView
            THEN FirstInRange(e, ViewOrder(PlayerCandidates))
            ELSE target[e]]
    /\ acquired' = acquired \cup {e \in NoTargetEnemyView : target'[e] # Null}
    /\ Done("updateNoTargetEnemy")
    /\ UNCHANGED <<delta_time, err, entVars, moveVars, statVars, blocked_by, tagVars,
                   viewVars, queue, dead_at_end, handled, stale, dropped, pending>>

\* registry.view<TransformComponent, StatsComponent, HealerTag>()
HealerView ==
    {e \in alive : HasTransformComponent(e) /\ HasStatsComponent(e) /\ HasHealerTag(e)}

\* registry.view<TransformComponent, StatsComponent, PlayerComponent, InjuredTag>()
InjuredView ==
    {e \in alive : /\ HasTransformComponent(e) /\ HasStatsComponent(e) /\ HasPlayerComponent(e)
                   /\ e \in InjuredTag}

\* hp_a / max_hp_a < hp_b / max_hp_b, for positive max_hp
RatioLess(hpA, maxA, hpB, maxB) == hpA * maxB < hpB * maxA

RECURSIVE BestTargetAnyInjured(_, _, _, _, _)
\* mutant: the scan takes the first Injured ally in range, whatever its hp
BestTargetAnyInjured(h, order, best, minHp, minMax) ==
    IF order = <<>> THEN best
    ELSE LET t == Head(order)
         IN IF best = Null /\ InRange(position_[h], position_[t], StatsRange(kind[h]))
            THEN BestTargetAnyInjured(h, Tail(order), t, hp_[t], MaxHp(kind[t]))
            ELSE BestTargetAnyInjured(h, Tail(order), best, minHp, minMax)

RECURSIVE BestTarget(_, _, _, _, _)
\* the scan of updateHealer: best is best_target, minHp / minMax is min_hp_percent
BestTarget(h, order, best, minHp, minMax) ==
    IF order = <<>> THEN best
    ELSE LET t == Head(order)
         IN IF /\ InRange(position_[h], position_[t], StatsRange(kind[h]))
               /\ RatioLess(hp_[t], MaxHp(kind[t]), minHp, minMax)
            THEN BestTarget(h, Tail(order), t, hp_[t], MaxHp(kind[t]))
            ELSE BestTarget(h, Tail(order), best, minHp, minMax)

updateHealer ==
    /\ At("updateHealer")
    /\ target' = [e \in Ents |->
            IF e \in HealerView
            THEN BestTarget(e, ViewOrder(InjuredView), Null, 2, 1)
            ELSE target[e]]
    /\ Done("updateHealer")
    /\ UNCHANGED <<delta_time, err, entVars, moveVars, statVars, blocked_by, tagVars,
                   viewVars, queue, histVars>>

----------------------------------------------------------------------------
(* TimerSystem::update *)

\* mutant: the view does not exclude AttackReadyTag
TimerViewUnfiltered == {e \in alive : HasStatsComponent(e)}

\* registry.view<StatsComponent>(entt::exclude<AttackReadyTag>)
TimerView == {e \in alive : HasStatsComponent(e) /\ e \notin AttackReadyTag}

\* stats.atk_timer_ += delta_time
TimerAdvanced(e) == atk_timer_[e] + delta_time

\* mutant: readiness is granted whatever the timer holds
TimerElapsedAlways(e) == TRUE

\* mutant: the comparison with the interval is strict
TimerElapsedStrict(e) == TimerAdvanced(e) > StatsAtkInterval(kind[e])

\* stats.atk_timer_ >= stats.atk_interval_
TimerElapsed(e) == TimerAdvanced(e) >= StatsAtkInterval(kind[e])

TimerSystem ==
    /\ At("timer")
    /\ atk_timer_' = [e \in Ents |-> IF e \in TimerView THEN TimerAdvanced(e) ELSE atk_timer_[e]]
    /\ AttackReadyTag' = AttackReadyTag \cup {e \in TimerView : TimerElapsed(e)}
    /\ pending' = {e \in alive : e \in AttackReadyTag}
    /\ ticks_waited' = [e \in Ents |->
            IF e \in alive /\ ticks_waited[e] < StatsAtkInterval(kind[e])
            THEN ticks_waited[e] + 1 ELSE ticks_waited[e]]
    /\ Done("timer")
    /\ UNCHANGED <<delta_time, err, entVars, moveVars, hp_, refVars,
                   DeadTag, ActionLockTag, InjuredTag, viewVars, queue,
                   dead_at_end, handled, stale, dropped, acquired>>

----------------------------------------------------------------------------
(* AttackStarterSystem::update: three loops, each over a view taken when   *)
(* the loop starts                                                         *)

\* registry.view<EnemyComponent, BlockedByComponent, AttackReadyTag, StatsComponent>()
MeleeGroup(ready) ==
    {e \in alive : /\ HasEnemyComponent(e) /\ HasBlockedByComponent(e)
                   /\ e \in ready /\ HasStatsComponent(e)}

\* mutant: the view requires neither AttackReadyTag nor the absence of BlockedByComponent
RangedGroupUnguarded(ready) ==
    {e \in alive : HasEnemyComponent(e) /\ HasTargetComponent(e) /\ HasStatsComponent(e)}

\* registry.view<EnemyComponent, TargetComponent, AttackReadyTag, StatsComponent>(exclude<BlockedByComponent>)
RangedGroup(ready) ==
    {e \in alive : /\ HasEnemyComponent(e) /\ HasTargetComponent(e)
                   /\ e \in ready /\ HasStatsComponent(e)
                   /\ ~HasBlockedByComponent(e)}

\* registry.view<PlayerComponent, TargetComponent, AttackReadyTag, StatsComponent>()
FriendlyGroup(ready) ==
    {e \in alive : /\ HasPlayerComponent(e) /\ HasTargetComponent(e)
                   /\ e \in ready /\ HasStatsComponent(e)}

\* mutant: AttackReadyTag is not removed
ReadyKept(ready, group) == ready

\* registry.remove<AttackReadyTag>(entity) for every entity of the group
ReadyRemoved(ready, group) == ready \ group

\* mutant: every handled entity of the run is locked, player units too
LockAttachedToAll(lock, group) == lock \cup {e \in alive : e \in AttackReadyTag}

\* registry.emplace_or_replace<ActionLockTag>(enemy_entity) for every entity of the group
LockAttached(lock, group) == lock \cup group

\* mutant: atk_timer_ is not reset
TimerResetSkipped(timer, group) == timer

\* registry.get<StatsComponent>(entity).atk_timer_ = 0.0f for every entity of the group
TimerReset(timer, group) == [e \in Ents |-> IF e \in group THEN 0 ELSE timer[e]]

\* mutant: the velocity is not written
VelocityKept(vel, group) == vel

\* vel->velocity_ = {0.0f, 0.0f} for every entity of the group
VelocityZeroed(vel, group) == [e \in Ents |-> IF e \in group THEN Zero ELSE vel[e]]

\* mutant: every friendly unit starts "attack"
FriendlyAnimationAttackOnly(e) == "attack"

\* the animation a friendly unit starts: "heal" for a healer, "attack" otherwise
FriendlyAnimation(e) == IF HasHealerTag(e) THEN "heal" ELSE "attack"

RECURSIVE MeleeEventsLooping(_)
\* mutant: the attack animation is requested with loop = true
MeleeEventsLooping(order) ==
    IF order = <<>> THEN <<>>
    ELSE <<PlayAnimationEvent(Head(order), "attack", TRUE)>> \o MeleeEventsLooping(Tail(order))

RECURSIVE MeleeEvents(_)
\* dispatcher.enqueue(PlayAnimationEvent{enemy_entity, "attack"_hs, false})
MeleeEvents(order) ==
    IF order = <<>> THEN <<>>
    ELSE <<PlayAnimationEvent(Head(order), "attack", FALSE)>> \o MeleeEvents(Tail(order))

RECURSIVE RangedEvents(_)
\* dispatcher.enqueue(PlayAnimationEvent{enemy_entity, "ranged_attack"_hs, false})
RangedEvents(order) ==
    IF order = <<>> THEN <<>>
    ELSE <<PlayAnimationEvent(Head(order), "ranged_attack", FALSE)>> \o RangedEvents(Tail(order))

RECURSIVE FriendlyEvents(_)
\* dispatcher.enqueue(PlayAnimationEvent{player_entity, "heal"_hs or "attack"_hs, false})
FriendlyEvents(order) ==
    IF order = <<>> THEN <<>>
    ELSE <<PlayAnimationEvent(Head(order), FriendlyAnimation(Head(order)), FALSE)>>
            \o FriendlyEvents(Tail(order))

AttackStarterSystem ==
    /\ At("attack_starter")
    /\ LET melee    == MeleeGroup(AttackReadyTag)
           ready1   == ReadyRemoved(AttackReadyTag, melee)
           ranged   == RangedGroup(ready1)
           ready2   == ReadyRemoved(ready1, ranged)
           friendly == FriendlyGroup(ready2)
       IN /\ ActionLockTag' = LockAttached(LockAttached(ActionLockTag, melee), ranged)
          /\ AttackReadyTag' = ReadyRemoved(ready2, friendly)
          /\ atk_timer_' = TimerReset(TimerReset(TimerReset(atk_timer_, melee), ranged), friendly)
          /\ velocity_' = VelocityZeroed(velocity_, ranged)
          /\ queue' = queue \o MeleeEvents(ViewOrder(melee))
                            \o RangedEvents(ViewOrder(ranged))
                            \o FriendlyEvents(ViewOrder(friendly))
          /\ ticks_waited' = [e \in Ents |->
                IF e \in melee \cup ranged \cup friendly THEN 0 ELSE ticks_waited[e]]
          /\ handled' = {<<e, "melee">> : e \in melee}
                            \cup {<<e, "ranged">> : e \in ranged}
                            \cup {<<e, "friendly">> : e \in friendly}
    /\ Done("attack_starter")
    /\ UNCHANGED <<delta_time, err, entVars, position_, target_waypoint_id_, hp_, refVars,
                   DeadTag, InjuredTag, viewVars, dead_at_end, stale, dropped, pending, acquired>>

----------------------------------------------------------------------------
(* MovementSystem::update *)

MovementSystem ==
    /\ At("movement")
    /\ position_' = [e \in Ents |->
            IF e \in alive
            THEN VecAdd(position_[e], VecScale(velocity_[e], delta_time))
            ELSE position_[e]]
    /\ Done("movement")
    /\ UNCHANGED <<delta_time, err, entVars, velocity_, target_waypoint_id_, statVars,
                   refVars, tagVars, viewVars, queue, histVars>>

----------------------------------------------------------------------------
(* AnimationSystem::update: the playback.  A non-looping animation that is *)
(* in flight may reach its last frame in this frame; the playback then     *)
(* enqueues one AnimationFinishedEvent for the entity.                     *)

InFlight == {e \in alive : animation[e].playing}

RECURSIVE FinishedEvents(_)
FinishedEvents(order) ==
    IF order = <<>> THEN <<>>
    ELSE <<AnimationFinishedEvent(Head(order))>> \o FinishedEvents(Tail(order))

AnimationSystem ==
    /\ At("animation")
    /\ \E fin \in SUBSET InFlight :
        /\ animation' = [e \in Ents |->
                IF e \in fin THEN [animation[e] EXCEPT !.playing = FALSE] ELSE animation[e]]
        /\ queue' = queue \o FinishedEvents(ViewOrder(fin))
    /\ Done("animation")
    /\ UNCHANGED <<delta_time, err, entVars, moveVars, statVars, refVars, tagVars,
                   is_flipped_, histVars>>

----------------------------------------------------------------------------
(* OrientationSystem::update *)

\* a.x < b.x; a comparison with NaN is false
XLess(a, b) == ~IsNaN(a) /\ ~IsNaN(b) /\ a[1] < b[1]

\* target && registry.valid(target->entity_)
TargetChecked(e) == HasTargetComponent(e) /\ target[e] \in alive

\* blocked && registry.valid(blocked->entity_)
BlockerChecked(e) == HasBlockedByComponent(e) /\ blocked_by[e] \in alive

\* 1. the locked target has a transform
FacesTarget(e) == TargetChecked(e) /\ HasTransformComponent(target[e])

\* 2. no priority target, and the blocker has a transform
FacesBlocker(e) == ~FacesTarget(e) /\ BlockerChecked(e) /\ HasTransformComponent(blocked_by[e])

\* 3. std::abs(vel->velocity_.x) > 0.1f
FacesVelocity(e) ==
    /\ ~FacesTarget(e) /\ ~FacesBlocker(e)
    /\ ~IsNaN(velocity_[e])
    /\ velocity_[e][1] # 0

\* registry.try_get<TransformComponent> on an entity that is not valid
OrientationFault(e) ==
    \/ TargetChecked(e) /\ target[e] \notin alive
    \/ ~FacesTarget(e) /\ BlockerChecked(e) /\ blocked_by[e] \notin alive

\* mutant: the blocker is consulted before the locked target
FaceLeftBlockerFirst(e) ==
    IF BlockerChecked(e) THEN XLess(position_[blocked_by[e]], position_[e])
    ELSE IF FacesTarget(e) THEN XLess(position_[target[e]], position_[e])
    ELSE velocity_[e][1] < 0

\* face_left as computed for an entity that is not skipped
FaceLeft(e) ==
    IF FacesTarget(e) THEN XLess(position_[target[e]], position_[e])
    ELSE IF FacesBlocker(e) THEN XLess(position_[blocked_by[e]], position_[e])
    ELSE velocity_[e][1] < 0

\* mutant: the FaceLeftTag correction is left out
FlippedIgnoringTag(e) == FaceLeft(e)

\* sprite.is_flipped_ as written: inverted for an entity with FaceLeftTag
Flipped(e) == IF HasFaceLeftTag(e) THEN ~FaceLeft(e) ELSE FaceLeft(e)

\* registry.view<SpriteComponent, TransformComponent>()
OrientationView == {e \in alive : HasTransformComponent(e)}

OrientationSystem ==
    /\ At("orientation")
    /\ is_flipped_' = [e \in Ents |->
            IF e \in OrientationView /\ (FacesTarget(e) \/ FacesBlocker(e) \/ FacesVelocity(e))
            THEN Flipped(e) ELSE is_flipped_[e]]
    /\ IF \E e \in OrientationView : OrientationFault(e)
       THEN err' = "invalid_entity" /\ UNCHANGED <<pc, ran>>
       ELSE err' = err /\ Done("orientation")
    /\ UNCHANGED <<delta_time, entVars, moveVars, statVars, refVars, tagVars,
                   animation, queue, histVars>>

----------------------------------------------------------------------------
(* YSortSystem::update and Scene::update: render order and UI only *)

YSortSystem ==
    /\ At("ysort")
    /\ Done("ysort")
    /\ UNCHANGED <<delta_time, err, entVars, moveVars, statVars, refVars, tagVars,
                   viewVars, queue, histVars>>

----------------------------------------------------------------------------
(* The dispatcher delivers the queued events, oldest first, to the         *)
(* connected handlers; an event enqueued by a handler is delivered in the  *)
(* same drain.                                                             *)

\* mutant: an enemy always returns to "walk"
FollowUpAlwaysWalk(e) ==
    IF HasEnemyComponent(e) \/ HasPlayerComponent(e)
    THEN <<PlayAnimationEvent(e, IF HasEnemyComponent(e) THEN "walk" ELSE "idle", TRUE)>>
    ELSE <<>>

\* AnimationStateSystem::onAnimationFinished: the follow-up request, if any
FollowUp(e) ==
    IF HasEnemyComponent(e)
    THEN (IF HasBlockedByComponent(e)
          THEN <<PlayAnimationEvent(e, "idle", TRUE)>>
          ELSE <<PlayAnimationEvent(e, "walk", TRUE)>>)
    ELSE IF HasPlayerComponent(e)
         THEN <<PlayAnimationEvent(e, "idle", TRUE)>>
         ELSE <<>>

\* mutant: the handler leaves ActionLockTag in place
onAnimationFinishedLockKept(lock, e) == lock

\* AnimationStateSystem::onAnimationFinished: ActionLockTag after the handler
onAnimationFinishedLock(lock, e) == IF e \in alive THEN lock \ {e} ELSE lock

\* mutant: an entity that no longer exists is answered with "idle"
onAnimationFinishedEventsForAll(e) ==
    IF e \in alive THEN FollowUp(e) ELSE <<PlayAnimationEvent(e, "idle", TRUE)>>

\* AnimationStateSystem::onAnimationFinished: events the handler enqueues
onAnimationFinishedEvents(e) == IF e \in alive THEN FollowUp(e) ELSE <<>>

\* the playback starts the requested animation of a valid entity
onPlayAnimation(anim, ev) ==
    IF ev.entity \in alive
    THEN [anim EXCEPT ![ev.entity] =
            [id |-> ev.animation_id, loop |-> ev.loop, playing |-> ~ev.loop]]
    ELSE anim

RECURSIVE DeliverDeferred(_, _, _)
\* mutant: what a handler enqueues during the drain is not delivered in it
DeliverDeferred(q, lock, anim) ==
    IF q = <<>> THEN [lock |-> lock, anim |-> anim]
    ELSE LET ev == Head(q)
         IN CASE ev.type = "AnimationFinished" ->
                    DeliverDeferred(Tail(q), onAnimationFinishedLock(lock, ev.entity), anim)
              [] ev.type = "PlayAnimation" ->
                    DeliverDeferred(Tail(q), lock, onPlayAnimation(anim, ev))
              [] OTHER ->
                    DeliverDeferred(Tail(q), lock, anim)

RECURSIVE Deliver(_, _, _)
\* the state after every event of q, and every event enqueued meanwhile, is delivered
Deliver(q, lock, anim) ==
    IF q = <<>> THEN [lock |-> lock, anim |-> anim]
    ELSE LET ev == Head(q)
         IN CASE ev.type = "AnimationFinished" ->
                    Deliver(Tail(q) \o onAnimationFinishedEvents(ev.entity),
                            onAnimationFinishedLock(lock, ev.entity), anim)
              [] ev.type = "PlayAnimation" ->
                    Deliver(Tail(q), lock, onPlayAnimation(anim, ev))
              [] OTHER ->
                    Deliver(Tail(q), lock, anim)

DispatcherUpdate ==
    /\ At("dispatcher")
    /\ LET r == Deliver(queue, ActionLockTag, animation)
       IN /\ ActionLockTag' = r.lock
          /\ animation' = r.anim
    /\ queue' = <<>>
    /\ pc' = "input"
    /\ delta_time' = 0
    /\ dead_at_end' = DeadTag
    /\ handled' = {}
    /\ stale' = {}
    /\ dropped' = {}
    /\ pending' = {}
    /\ acquired' = {}
    /\ UNCHANGED <<err, ran, entVars, moveVars, statVars, refVars,
                   DeadTag, AttackReadyTag, InjuredTag, is_flipped_>>

----------------------------------------------------------------------------
(* Input callbacks of GameScene, run by the input manager between updates *)

\* EntityFactory::createPlayerUnit(class_id, position)
createPlayerUnit(k, p, injured) ==
    LET e == 3 + spawned
    IN /\ spawned < MaxPlayers
       /\ spawned' = spawned + 1
       /\ alive' = alive \cup {e}
       /\ kind' = [kind EXCEPT ![e] = k]
       /\ position_' = [position_ EXCEPT ![e] = p]
       /\ velocity_' = [velocity_ EXCEPT ![e] = Zero]
       /\ atk_timer_' = [atk_timer_ EXCEPT ![e] = 0]
       /\ ticks_waited' = [ticks_waited EXCEPT ![e] = 0]
       /\ hp_' = [hp_ EXCEPT ![e] = IF injured THEN MaxHp(k) \div 2 ELSE MaxHp(k)]
       /\ InjuredTag' = IF injured THEN InjuredTag \cup {e} ELSE InjuredTag
       /\ animation' = [animation EXCEPT ![e] = [id |-> "idle", loop |-> TRUE, playing |-> FALSE]]
       /\ UNCHANGED <<ctlVars, target_waypoint_id_, refVars, DeadTag, AttackReadyTag,
                      ActionLockTag, is_flipped_, queue, histVars>>

onCreateTestPlayerMelee ==
    /\ At("input")
    /\ \E p \in SpawnPositions : createPlayerUnit("warrior", p, TRUE)

onCreateTestPlayerRanged ==
    /\ At("input")
    /\ \E p \in SpawnPositions : createPlayerUnit("archer", p, TRUE)

onCreateTestPlayerHealer ==
    /\ At("input")
    /\ \E p \in SpawnPositions : createPlayerUnit("witch", p, FALSE)

onClearAllPlayers ==
    /\ At("input")
    /\ Destroy({e \in alive : HasPlayerComponent(e)})
    /\ UNCHANGED <<ctlVars, spawned, queue, histVars>>

----------------------------------------------------------------------------

Next ==
    \/ Update
    \/ RemoveDeadSystem
    \/ FollowPathSystem
    \/ BlockSystem
    \/ updateHasTarget
    \/ updateNoTargetPlayer
    \/ updateNoTargetEnemy
    \/ updateHealer
    \/ TimerSystem
    \/ AttackStarterSystem
    \/ MovementSystem
    \/ AnimationSystem
    \/ OrientationSystem
    \/ YSortSystem
    \/ DispatcherUpdate
    \/ onCreateTestPlayerMelee
    \/ onCreateTestPlayerRanged
    \/ onCreateTestPlayerHealer
    \/ onClearAllPlayers

Spec == Init /\ [][Next]_vars

----------------------------------------------------------------------------
(* The healer scenario: the enemies are gone, a healer and her allies have *)
(* been placed, and between the frames the damage and healing of the game  *)
(* change the hit points and the InjuredTag of the player units.           *)

\* where the allies stand: beside the healer, at her range bound, beyond it
HealerAllyPositions == {<<20, 20>>, <<50, 20>>, <<51, 20>>}

HealerInit ==
    /\ pc = "input"
    /\ delta_time = 0
    /\ alive = 3 .. (3 + HealerAllies)
    /\ kind \in [Ents -> Kinds]
    /\ \A e \in Ents :
            kind[e] = (IF e = 3 THEN "witch"
                       ELSE IF e \in 4 .. (3 + HealerAllies) THEN "warrior" ELSE "none")
    /\ spawned = HealerAllies + 1
    /\ position_ \in [Ents -> HealerAllyPositions \cup {Zero}]
    /\ \A e \in Ents :
            /\ e = 3 => position_[e] = <<20, 20>>
            /\ e \in 4 .. (3 + HealerAllies) => position_[e] \in HealerAllyPositions
            /\ e \notin 3 .. (3 + HealerAllies) => position_[e] = Zero
    /\ velocity_ = [e \in Ents |-> Zero]
    /\ atk_timer_ = [e \in Ents |-> 0]
    /\ ticks_waited = [e \in Ents |-> 0]
    /\ hp_ = [e \in Ents |-> IF e \in 3 .. (3 + HealerAllies) THEN MaxHp("witch") ELSE 0]
    /\ target_waypoint_id_ = [e \in Ents |-> StartPoint]
    /\ target = [e \in Ents |-> Null]
    /\ blocked_by = [e \in Ents |-> Null]
    /\ DeadTag = {}
    /\ AttackReadyTag = {}
    /\ ActionLockTag = {}
    /\ InjuredTag = {}
    /\ is_flipped_ = [e \in Ents |-> FALSE]
    /\ animation = [e \in Ents |->
            IF e \in 3 .. (3 + HealerAllies) THEN [id |-> "idle", loop |-> TRUE, playing |-> FALSE]
            ELSE [id |-> "none", loop |-> TRUE, playing |-> FALSE]]
    /\ queue = <<>>
    /\ err = "none"
    /\ ran = <<>>
    /\ dead_at_end = {}
    /\ handled = {}
    /\ stale = {}
    /\ dropped = {}
    /\ pending = {}
    /\ acquired = {}

\* damage and healing: hp_ of one ally changes, its InjuredTag is set or cleared
ExternalHealth ==
    /\ At("input")
    /\ \E e \in alive : \E h \in 1 .. MaxHp(kind[e]) : \E injured \in BOOLEAN :
        /\ HasPlayerComponent(e) /\ ~HasHealerTag(e)
        /\ hp_' = [hp_ EXCEPT ![e] = h]
        /\ InjuredTag' = IF injured THEN InjuredTag \cup {e} ELSE InjuredTag \ {e}
    /\ UNCHANGED <<ctlVars, entVars, moveVars, atk_timer_, ticks_waited, refVars,
                   DeadTag, AttackReadyTag, ActionLockTag, viewVars, queue, histVars>>

HealerNext ==
    \/ ExternalHealth
    \/ Update
    \/ RemoveDeadSystem
    \/ FollowPathSystem
    \/ BlockSystem
    \/ updateHasTarget
    \/ updateNoTargetPlayer
    \/ updateNoTargetEnemy
    \/ updateHealer
    \/ TimerSystem
    \/ AttackStarterSystem
    \/ MovementSystem
    \/ AnimationSystem
    \/ OrientationSystem
    \/ YSortSystem
    \/ DispatcherUpdate

HealerSpec == HealerInit /\ [][HealerNext]_vars

----------------------------------------------------------------------------
(* The path scenario: the enemies walk the second path, from any place on  *)
(* it and towards any of its nodes or a node that does not exist, in       *)
(* frames of different lengths.  No player unit is placed.                 *)

\* the values of delta_time a frame of the path scenario may have
PathDtValues == {1, 2}

\* x coordinates the enemies start from (the path lies on y = 0)
PathStartXs == {95, 96, 100, 104, 120}

\* the ids the enemies start with
PathTargetIds == {10, 11, 12, UnknownId}

PathInit ==
    /\ pc = "input"
    /\ delta_time = 0
    /\ alive = Enemies
    /\ kind = [e \in Ents |-> IF e \in Enemies THEN EnemyKindOf(e) ELSE "none"]
    /\ spawned = 0
    /\ \E xs \in [Enemies -> PathStartXs] :
            position_ = [e \in Ents |-> IF e \in Enemies THEN <<xs[e], 0>> ELSE Zero]
    /\ velocity_ = [e \in Ents |-> Zero]
    /\ atk_timer_ = [e \in Ents |-> 0]
    /\ ticks_waited = [e \in Ents |-> 0]
    /\ hp_ = [e \in Ents |-> IF e \in Enemies THEN MaxHp(EnemyKindOf(e)) ELSE 0]
    /\ \E ids \in [Enemies -> PathTargetIds] :
            target_waypoint_id_ = [e \in Ents |-> IF e \in Enemies THEN ids[e] ELSE StartPoint]
    /\ target = [e \in Ents |-> Null]
    /\ blocked_by = [e \in Ents |-> Null]
    /\ DeadTag = {}
    /\ AttackReadyTag = {}
    /\ ActionLockTag = {}
    /\ InjuredTag = {}
    /\ is_flipped_ = [e \in Ents |-> FALSE]
    /\ animation = [e \in Ents |->
            IF e \in Enemies THEN [id |-> "walk", loop |-> TRUE, playing |-> FALSE]
            ELSE [id |-> "none", loop |-> TRUE, playing |-> FALSE]]
    /\ queue = <<>>
    /\ err = "none"
    /\ ran = <<>>
    /\ dead_at_end = {}
    /\ handled = {}
    /\ stale = {}
    /\ dropped = {}
    /\ pending = {}
    /\ acquired = {}

\* the frame loop calls GameScene::update(delta_time)
PathUpdate ==
    /\ At("input")
    /\ \E dt \in PathDtValues : delta_time' = dt
    /\ pc' = Steps[1]
    /\ ran' = <<>>
    /\ UNCHANGED <<err, entVars, moveVars, statVars, refVars, tagVars, viewVars, queue, histVars>>

PathNext ==
    \/ PathUpdate
    \/ RemoveDeadSystem
    \/ FollowPathSystem
    \/ BlockSystem
    \/ updateHasTarget
    \/ updateNoTargetPlayer
    \/ updateNoTargetEnemy
    \/ updateHealer
    \/ TimerSystem
    \/ AttackStarterSystem
    \/ MovementSystem
    \/ AnimationSystem
    \/ OrientationSystem
    \/ YSortSystem
    \/ DispatcherUpdate

PathSpec == PathInit /\ [][PathNext]_vars

\* the path scenario with both enemies heading for the childless node 11
PathLiveInit ==
    /\ PathInit
    /\ \A e \in Enemies : target_waypoint_id_[e] = 11

\* ... and a frame loop that keeps calling GameScene::update
PathLiveSpec == PathLiveInit /\ [][PathNext]_vars /\ WF_vars(PathNext)

----------------------------------------------------------------------------
(* The handler scenario: a drain of the dispatcher starts with some        *)
(* AnimationFinished events queued, in any state of the registry: the      *)
(* entities named may be enemies (blocked or not), player units, entities  *)
(* of the level that carry neither role, or entities destroyed meanwhile.  *)
(* The events are delivered one at a time.                                 *)

\* handle 3 is a player unit, handle 4 an entity of the level without role
HandlerEnts == {1, 2, 3, 4}

\* the queues of at most n AnimationFinished events
HandlerQueues(n) ==
    UNION {[1 .. k -> {AnimationFinishedEvent(e) : e \in HandlerEnts}] : k \in 1 .. n}

HandlerInit ==
    /\ pc = "dispatcher"
    /\ delta_time = 1
    /\ alive \in SUBSET HandlerEnts
    /\ kind = [e \in Ents |->
            IF e \notin alive THEN "none"
            ELSE IF e \in Enemies THEN EnemyKindOf(e)
            ELSE IF e = 3 THEN "warrior" ELSE "none"]
    /\ spawned = 1
    /\ position_ = [e \in Ents |-> IF e \in alive THEN <<20, 20>> ELSE Zero]
    /\ velocity_ = [e \in Ents |-> Zero]
    /\ atk_timer_ = [e \in Ents |-> 0]
    /\ ticks_waited = [e \in Ents |-> 0]
    /\ hp_ = [e \in Ents |-> IF e \in alive THEN MaxHp(kind[e]) ELSE 0]
    /\ target_waypoint_id_ = [e \in Ents |-> StartPoint]
    /\ target = [e \in Ents |-> Null]
    /\ blocked_by \in [Ents -> {Null, 3}]
    /\ \A e \in Ents : blocked_by[e] # Null => (e \in alive /\ e \in Enemies)
    /\ DeadTag = {}
    /\ AttackReadyTag = {}
    /\ ActionLockTag \in SUBSET alive
    /\ InjuredTag = {}
    /\ is_flipped_ = [e \in Ents |-> FALSE]
    /\ animation = [e \in Ents |-> [id |-> "none", loop |-> TRUE, playing |-> FALSE]]
    /\ queue \in HandlerQueues(MaxQueued)
    /\ err = "none"
    /\ ran = Steps
    /\ dead_at_end = {}
    /\ handled = {}
    /\ stale = {}
    /\ dropped = {}
    /\ pending = {}
    /\ acquired = {}

\* the dispatcher delivers the oldest event to its handler
DeliverOne ==
    /\ At("dispatcher")
    /\ queue # <<>>
    /\ LET ev == Head(queue)
       IN CASE ev.type = "AnimationFinished" ->
                    /\ ActionLockTag' = onAnimationFinishedLock(ActionLockTag, ev.entity)
                    /\ queue' = Tail(queue) \o onAnimationFinishedEvents(ev.entity)
                    /\ animation' = animation
            [] ev.type = "PlayAnimation" ->
                    /\ ActionLockTag' = ActionLockTag
                    /\ queue' = Tail(queue)
                    /\ animation' = onPlayAnimation(animation, ev)
            [] OTHER ->
                    /\ ActionLockTag' = ActionLockTag
                    /\ queue' = Tail(queue)
                    /\ animation' = animation
    /\ UNCHANGED <<ctlVars, entVars, moveVars, statVars, refVars,
                   DeadTag, AttackReadyTag, InjuredTag, is_flipped_, histVars>>

HandlerNext == DeliverOne

HandlerSpec == HandlerInit /\ [][HandlerNext]_vars

----------------------------------------------------------------------------
(* The patrol scenario: the two enemies walk the closed loop of nodes 20   *)
(* and 21 past a warrior, so that they are engaged, targeted and           *)
(* dispatched for ever.  The frame loop keeps calling GameScene::update,   *)
(* and the playback plays a non-looping animation to its last frame.       *)

\* the node the patrol starts at
PatrolStart == 20

\* where the warrior stands
PatrolGuardPosition == <<210, 10>>

PatrolInit ==
    /\ pc = "input"
    /\ delta_time = 0
    /\ alive = Enemies \cup {3}
    /\ kind = [e \in Ents |->
            IF e \in Enemies THEN EnemyKindOf(e) ELSE IF e = 3 THEN "warrior" ELSE "none"]
    /\ spawned = 1
    /\ position_ = [e \in Ents |->
            IF e \in Enemies THEN waypoint_nodes[PatrolStart].position_
            ELSE IF e = 3 THEN PatrolGuardPosition ELSE Zero]
    /\ velocity_ = [e \in Ents |-> Zero]
    /\ atk_timer_ = [e \in Ents |-> 0]
    /\ ticks_waited = [e \in Ents |-> 0]
    /\ hp_ = [e \in Ents |-> IF e \in alive THEN MaxHp(kind[e]) ELSE 0]
    /\ target_waypoint_id_ = [e \in Ents |-> IF e \in Enemies THEN PatrolStart ELSE StartPoint]
    /\ target = [e \in Ents |-> Null]
    /\ blocked_by = [e \in Ents |-> Null]
    /\ DeadTag = {}
    /\ AttackReadyTag = {}
    /\ ActionLockTag = {}
    /\ InjuredTag = {}
    /\ is_flipped_ = [e \in Ents |-> FALSE]
    /\ animation = [e \in Ents |->
            IF e \in Enemies THEN [id |-> "walk", loop |-> TRUE, playing |-> FALSE]
            ELSE IF e = 3 THEN [id |-> "idle", loop |-> TRUE, playing |-> FALSE]
            ELSE [id |-> "none", loop |-> TRUE, playing |-> FALSE]]
    /\ queue = <<>>
    /\ err = "none"
    /\ ran = <<>>
    /\ dead_at_end = {}
    /\ handled = {}
    /\ stale = {}
    /\ dropped = {}
    /\ pending = {}
    /\ acquired = {}

PatrolNext ==
    \/ Update
    \/ RemoveDeadSystem
    \/ FollowPathSystem
    \/ BlockSystem
    \/ updateHasTarget
    \/ updateNoTargetPlayer
    \/ updateNoTargetEnemy
    \/ updateHealer
    \/ TimerSystem
    \/ AttackStarterSystem
    \/ MovementSystem
    \/ AnimationSystem
    \/ OrientationSystem
    \/ YSortSystem
    \/ DispatcherUpdate

\* the playback reaches the last frame of the animation of e
PlaysToCompletion(e) ==
    /\ AnimationSystem
    /\ animation[e].playing
    /\ ~animation'[e].playing

\* the frame loop goes on, and an animation that is in flight again and
\* again is played to completion
PatrolFairness ==
    /\ WF_vars(PatrolNext)
    /\ \A e \in Enemies : SF_vars(PlaysToCompletion(e))

PatrolSpec == PatrolInit /\ [][PatrolNext]_vars /\ PatrolFairness

----------------------------------------------------------------------------
(* The facing scenario: OrientationSystem::update runs on registry states  *)
(* in which the two enemies stand between two player units, each with or   *)
(* without a locked target, a blocker and a horizontal velocity.  A        *)
(* blocker relation may name a unit that has been destroyed; a locked      *)
(* target has been validated earlier in the frame.                         *)

\* the player units of the scenario: a warrior and an archer
OrientPlayers == {3, 4}

\* x coordinates of the player units; the enemies stand at x = 20
OrientXs == {10, 30}

\* velocity_.x of an enemy
OrientVelocityXs == {0 - 20, 0, 20}

OrientInit ==
    /\ pc = "orientation"
    /\ delta_time = 1
    /\ \E ps \in SUBSET OrientPlayers : alive = Enemies \cup ps
    /\ kind = [e \in Ents |->
            IF e \notin alive THEN "none"
            ELSE IF e \in Enemies THEN EnemyKindOf(e)
            ELSE IF e = 3 THEN "warrior" ELSE "archer"]
    /\ spawned = 1
    /\ \E xs \in [OrientPlayers -> OrientXs] :
            position_ = [e \in Ents |->
                IF e \in Enemies THEN <<20, 20>>
                ELSE IF e \in OrientPlayers THEN <<xs[e], 20>> ELSE Zero]
    /\ \E vx \in [Enemies -> OrientVelocityXs] :
            velocity_ = [e \in Ents |-> IF e \in Enemies THEN <<vx[e], 0>> ELSE Zero]
    /\ atk_timer_ = [e \in Ents |-> 0]
    /\ ticks_waited = [e \in Ents |-> 0]
    /\ hp_ = [e \in Ents |-> IF e \in alive THEN MaxHp(kind[e]) ELSE 0]
    /\ target_waypoint_id_ = [e \in Ents |-> StartPoint]
    /\ target \in [Ents -> {Null} \cup OrientPlayers]
    /\ \A e \in Ents : target[e] # Null => (e \in Enemies /\ target[e] \in alive)
    /\ blocked_by \in [Ents -> {Null} \cup OrientPlayers]
    /\ \A e \in Ents : blocked_by[e] # Null => e \in Enemies
    /\ DeadTag = {}
    /\ AttackReadyTag = {}
    /\ ActionLockTag = {}
    /\ InjuredTag = {}
    /\ \E b \in BOOLEAN : is_flipped_ = [e \in Ents |-> b]
    /\ animation = [e \in Ents |-> [id |-> "none", loop |-> TRUE, playing |-> FALSE]]
    /\ queue = <<>>
    /\ err = "none"
    /\ ran = SubSeq(Steps, 1, (CHOOSE j \in 1 .. Len(Steps) : Steps[j] = "orientation") - 1)
    /\ dead_at_end = {}
    /\ handled = {}
    /\ stale = {}
    /\ dropped = {}
    /\ pending = {}
    /\ acquired = {}

OrientNext == OrientationSystem \/ YSortSystem

OrientSpec == OrientInit /\ [][OrientNext]_vars

----------------------------------------------------------------------------
(* Properties *)

\* the steps of one update in the order stated for a tick
FixedOrder ==
    <<"remove_dead", "follow_path", "block",
      "updateHasTarget", "updateNoTargetPlayer", "updateNoTargetEnemy", "updateHealer",
      "timer", "attack_starter", "movement", "animation", "orientation", "ysort">>

\* C1: in every tick the systems run once each, in the fixed order Entity
\* Removal, Path Navigation, melee-engagement detector, Target Acquisition,
\* Cooldown Timer, Attack Dispatch, Movement, animation playback, Facing
\* Resolution: what has run so far is a prefix of that order, the step that
\* runs next is the next one of the order, and the whole order has run when
\* the update returns.
C1_FixedOrder ==
    /\ IsPrefix(ran, FixedOrder)
    /\ pc \in Range(FixedOrder) => IsPrefix(Append(ran, pc), FixedOrder)
    /\ pc = "dispatcher" => ran = FixedOrder

C1_Witness == pc = "dispatcher" /\ ran = FixedOrder /\ DeadTag # {}

\* the steps that decide or read targets, timers, dispatches and facing
DecisionSteps ==
    {"follow_path", "updateHasTarget", "updateNoTargetPlayer", "updateNoTargetEnemy",
     "updateHealer", "timer", "attack_starter", "orientation"}

\* C2: an entity that carried DeadTag when tick N ended does not exist when
\* Path Navigation, Target Acquisition, Cooldown Timer, Attack Dispatch or
\* Facing Resolution run in tick N+1.
C2_DeadGoneNextTick ==
    pc \in DecisionSteps => \A e \in dead_at_end : e \notin alive

C2_Witness == pc = "follow_path" /\ dead_at_end # {} /\ alive # {}

ReferentWithin(e) ==
    /\ target[e] \in alive
    /\ Len(position_[e]) = 2 /\ Len(position_[target[e]]) = 2
    /\ (position_[e][1] - position_[target[e]][1]) * (position_[e][1] - position_[target[e]][1])
          + (position_[e][2] - position_[target[e]][2]) * (position_[e][2] - position_[target[e]][2])
       <= (StatsRange(kind[e]) + UNIT_RADIUS) * (StatsRange(kind[e]) + UNIT_RADIUS)

\* C4: at the end of every Target Acquisition run every holder of a
\* TargetComponent has a referent that exists, has a position and is within
\* (range + unit_radius); a TargetComponent that failed one of these when the
\* run started was removed by its validation pass.
C4_TargetsValidAfterAcquisition ==
    /\ [](pc = "timer" => \A e \in alive : target[e] # Null => ReferentWithin(e))
    /\ [][pc = "updateHasTarget" =>
            \A e \in alive : (target[e] # Null /\ ~ReferentWithin(e)) => e \in dropped']_vars

C4_Witness ==
    /\ pc = "timer"
    /\ dropped # {}
    /\ \E e \in alive : target[e] # Null

\* the steps that run after the validation pass of the same update
AfterValidation ==
    {"updateNoTargetPlayer", "updateNoTargetEnemy", "updateHealer", "timer",
     "attack_starter", "movement", "animation", "orientation", "ysort", "dispatcher"}

\* C5: no system reads the components of a destroyed referent, and once the
\* validation pass has run no TargetComponent points at a destroyed entity.
C5_StaleReferenceRecovered ==
    /\ err # "invalid_entity"
    /\ pc \in AfterValidation => \A e \in alive : target[e] # Null => target[e] \in alive

C5_Witness ==
    /\ pc = "dispatcher"
    /\ stale # {}
    /\ \E e \in alive : blocked_by[e] # Null /\ blocked_by[e] \notin alive

\* the entities the last Attack Dispatch run handled
Dispatched == {h[1] : h \in handled}

\* C6: an enemy that holds ActionLock when Attack Dispatch runs is not
\* dispatched by that run.
C6_NoDispatchWhileLocked ==
    [][pc = "attack_starter" =>
            \A e \in alive : (HasEnemyComponent(e) /\ e \in ActionLockTag)
                                => e \notin {h[1] : h \in handled'}]_vars

\* C7: after an Attack Dispatch run no entity the run attached ActionLock to
\* (a melee or ranged dispatch) still holds AttackReady.
C7_LockClearsReady ==
    pc = "movement" =>
        \A h \in handled : h[2] \in {"melee", "ranged"}
                              => h[1] \in ActionLockTag /\ h[1] \notin AttackReadyTag

C7_Witness ==
    /\ pc = "movement"
    /\ \E h \in handled : h[2] \in {"melee", "ranged"} /\ h[1] \in ActionLockTag

\* the events of q that are PlayAnimation requests for e
PlayRequests(q, e) == SelectSeq(q, LAMBDA ev : ev.type = "PlayAnimation" /\ ev.entity = e)

\* the events enqueued by the step being taken
Enqueued == SubSeq(queue', Len(queue) + 1, Len(queue'))

\* C8: one Attack Dispatch run handles every entity in at most one of the
\* three groups and enqueues at most one PlayAnimation request for it.
C8_OneGroupPerEntity ==
    [][pc = "attack_starter" =>
            \A e \in Ents :
                /\ Cardinality({h \in handled' : h[1] = e}) <= 1
                /\ Len(PlayRequests(Enqueued, e)) <= 1]_vars

C8_Witness ==
    /\ pc = "movement"
    /\ \E g, h \in handled : g[1] # h[1] /\ g[2] # h[2]
    /\ \A e \in Dispatched : Len(PlayRequests(queue, e)) = 1

\* C9: Attack Dispatch, for every entity that has Enemy, BlockedBy,
\* AttackReady and Stats: attaches ActionLock, removes AttackReady, sets
\* atk_timer to 0 and enqueues exactly one PlayAnimation(entity, "attack",
\* loop = false).
C9_MeleeDispatch ==
    [][pc = "attack_starter" =>
            \A e \in alive :
                (kind[e] \in EnemyKinds /\ blocked_by[e] # Null /\ e \in AttackReadyTag)
                => /\ e \in ActionLockTag'
                   /\ e \notin AttackReadyTag'
                   /\ atk_timer_'[e] = 0
                   /\ PlayRequests(Enqueued, e) =
                        <<[type |-> "PlayAnimation", entity |-> e,
                           animation_id |-> "attack", loop |-> FALSE]>>]_vars

C9_Witness ==
    /\ pc = "movement"
    /\ \E e \in alive : /\ <<e, "melee">> \in handled
                        /\ atk_timer_[e] = 0
                        /\ Len(PlayRequests(queue, e)) = 1

\* C10: Attack Dispatch, for every entity that has Enemy, Target,
\* AttackReady and Stats and no BlockedBy: attaches ActionLock, removes
\* AttackReady, sets atk_timer to 0, sets the velocity to (0,0) and enqueues
\* exactly one PlayAnimation(entity, "ranged_attack", loop = false).
C10_RangedDispatch ==
    [][pc = "attack_starter" =>
            \A e \in alive :
                (/\ kind[e] \in EnemyKinds /\ target[e] # Null
                 /\ e \in AttackReadyTag /\ blocked_by[e] = Null)
                => /\ e \in ActionLockTag'
                   /\ e \notin AttackReadyTag'
                   /\ atk_timer_'[e] = 0
                   /\ velocity_'[e] = <<0, 0>>
                   /\ PlayRequests(Enqueued, e) =
                        <<[type |-> "PlayAnimation", entity |-> e,
                           animation_id |-> "ranged_attack", loop |-> FALSE]>>]_vars

C10_Witness ==
    /\ pc = "movement"
    /\ \E e \in alive : /\ <<e, "ranged">> \in handled
                        /\ velocity_[e] = <<0, 0>>
                        /\ Len(PlayRequests(queue, e)) = 1

\* C11: Attack Dispatch, for every entity that has Player, Target,
\* AttackReady and Stats: removes AttackReady, sets atk_timer to 0 and
\* enqueues exactly one PlayAnimation with loop = false, "heal" for a healer
\* and "attack" otherwise; it does not attach ActionLock.
C11_FriendlyDispatch ==
    [][pc = "attack_starter" =>
            \A e \in alive :
                (kind[e] \in PlayerKinds /\ target[e] # Null /\ e \in AttackReadyTag)
                => /\ e \notin AttackReadyTag'
                   /\ atk_timer_'[e] = 0
                   /\ PlayRequests(Enqueued, e) =
                        <<[type |-> "PlayAnimation", entity |-> e,
                           animation_id |-> (IF kind[e] = "witch" THEN "heal" ELSE "attack"),
                           loop |-> FALSE]>>
                   /\ (e \in ActionLockTag' <=> e \in ActionLockTag)
                   /\ e \notin ActionLockTag']_vars

C11_Witness ==
    /\ pc = "movement"
    /\ \E e, f \in alive :
            /\ <<e, "friendly">> \in handled /\ kind[e] = "witch"
            /\ <<f, "friendly">> \in handled /\ kind[f] # "witch"
            /\ atk_timer_[e] = 0 /\ atk_timer_[f] = 0
            /\ Len(PlayRequests(queue, e)) = 1
            /\ e \notin ActionLockTag /\ f \notin ActionLockTag

\* C12: an entity that holds AttackReady keeps it, while it exists, in every
\* step except the Attack Dispatch run that dispatches it; a Cooldown Timer
\* run changes neither the tag nor atk_timer of an entity that already holds
\* AttackReady.
C12_ReadinessPendingOnce ==
    [][\A e \in alive :
            e \in AttackReadyTag =>
                /\ (e \in alive' /\ e \notin AttackReadyTag')
                        => (pc = "attack_starter" /\ e \in {h[1] : h \in handled'})
                /\ pc = "timer" => (e \in AttackReadyTag' /\ atk_timer_'[e] = atk_timer_[e])]_vars

C12_Witness ==
    /\ pc = "attack_starter"
    /\ \E e \in alive : /\ e \in pending
                        /\ e \in AttackReadyTag
                        /\ atk_timer_[e] = StatsAtkInterval(kind[e])

\* C13: a Cooldown Timer run adds delta_time to atk_timer of every entity
\* without AttackReady and attaches AttackReady to it exactly when the new
\* atk_timer is at least atk_interval; it never lowers atk_timer.  atk_timer
\* of an existing entity is lowered (set to 0) only by the Attack Dispatch
\* run that dispatches the entity.
C13_TimerNeverResets ==
    [][\A e \in alive :
            /\ (pc = "timer" /\ e \notin AttackReadyTag)
                    => /\ atk_timer_'[e] = atk_timer_[e] + delta_time
                       /\ (e \in AttackReadyTag' <=> atk_timer_'[e] >= StatsAtkInterval(kind[e]))
            /\ pc = "timer" => atk_timer_'[e] >= atk_timer_[e]
            /\ (e \in alive' /\ atk_timer_'[e] < atk_timer_[e])
                    => /\ pc = "attack_starter"
                       /\ e \in {h[1] : h \in handled'}
                       /\ atk_timer_'[e] = 0]_vars

C13_Witness ==
    /\ pc = "attack_starter"
    /\ \E e, f \in alive :
            /\ e \notin pending /\ e \in AttackReadyTag
            /\ atk_timer_[e] = StatsAtkInterval(kind[e])
            /\ f \notin AttackReadyTag
            /\ atk_timer_[f] > 0 /\ atk_timer_[f] < StatsAtkInterval(kind[f])

\* squared distance of two entities' positions at most (range of e + unit radius) squared
Within(e, t) ==
    /\ Len(position_[e]) = 2 /\ Len(position_[t]) = 2
    /\ (position_[e][1] - position_[t][1]) * (position_[e][1] - position_[t][1])
          + (position_[e][2] - position_[t][2]) * (position_[e][2] - position_[t][2])
       <= (StatsRange(kind[e]) + UNIT_RADIUS) * (StatsRange(kind[e]) + UNIT_RADIUS)

\* t is the first entity of the sequence that lies within range of e
FirstWithin(e, t, order) ==
    \E i \in 1 .. Len(order) :
        /\ order[i] = t
        /\ Within(e, t)
        /\ \A j \in 1 .. (i - 1) : ~Within(e, order[j])

\* C14: after the Player -> Enemy pass every non-healer player unit that
\* entered the pass without a TargetComponent holds one if and only if some
\* enemy lies within (range + unit_radius) of it, and its target is then the
\* first such enemy in the enemy iteration order.
C14_PlayerAcquiresFirstEnemy ==
    [][pc = "updateNoTargetPlayer" =>
            \A e \in alive :
                (kind[e] \in {"warrior", "archer"} /\ target[e] = Null)
                => LET enemies == {t \in alive : kind[t] \in EnemyKinds}
                   IN /\ target'[e] # Null <=> \E t \in enemies : Within(e, t)
                      /\ target'[e] # Null
                            => FirstWithin(e, target'[e], ViewOrder(enemies))]_vars

C14_Witness ==
    /\ pc = "updateNoTargetEnemy"
    /\ \E e \in alive :
            /\ kind[e] \in {"warrior", "archer"} /\ e \in acquired
            /\ Cardinality({t \in alive : kind[t] \in EnemyKinds /\ Within(e, t)}) = 2

\* C15: the Enemy(ranged) -> Player pass gives no target to a ranged enemy
\* that holds a BlockedByComponent, and gives a ranged enemy with neither
\* TargetComponent nor BlockedByComponent the first player within range in
\* iteration order (none when no player is within range).
C15_BlockedRangedEnemyNotTargeting ==
    [][pc = "updateNoTargetEnemy" =>
            \A e \in alive :
                (kind[e] = "enemy_ranged" /\ target[e] = Null)
                => LET players == {t \in alive : kind[t] \in PlayerKinds}
                   IN IF blocked_by[e] # Null
                      THEN target'[e] = Null
                      ELSE /\ target'[e] # Null <=> \E t \in players : Within(e, t)
                           /\ target'[e] # Null
                                 => FirstWithin(e, target'[e], ViewOrder(players))]_vars

\* the Injured player units within range of healer h
HealCandidates(h) ==
    {t \in alive : kind[t] \in PlayerKinds /\ t \in InjuredTag /\ Within(h, t)}

AtBound(e, t) ==
    /\ Len(position_[e]) = 2 /\ Len(position_[t]) = 2
    /\ (position_[e][1] - position_[t][1]) * (position_[e][1] - position_[t][1])
          + (position_[e][2] - position_[t][2]) * (position_[e][2] - position_[t][2])
       = (StatsRange(kind[e]) + UNIT_RADIUS) * (StatsRange(kind[e]) + UNIT_RADIUS)

\* C17: the range test is inclusive.  The validation pass keeps the
\* TargetComponent of a holder whose existing referent is within or exactly
\* at (range + unit_radius) and removes, in that same run, the one whose
\* referent is beyond it; a non-healer player unit without target that has an
\* enemy exactly at the bound acquires a target in the Player -> Enemy pass.
C17_RangeInclusive ==
    [][/\ pc = "updateHasTarget" =>
            \A e \in alive :
                (target[e] # Null /\ target[e] \in alive)
                => /\ Within(e, target[e]) => target'[e] = target[e]
                   /\ AtBound(e, target[e]) => target'[e] = target[e]
                   /\ ~Within(e, target[e]) => (target'[e] = Null /\ e \in dropped')
       /\ pc = "updateNoTargetPlayer" =>
            \A e \in alive :
                (/\ kind[e] \in {"warrior", "archer"} /\ target[e] = Null
                 /\ \E t \in alive : kind[t] \in EnemyKinds /\ AtBound(e, t))
                => target'[e] # Null]_vars

C17_Witness ==
    /\ pc = "updateNoTargetPlayer"
    /\ \E e \in alive : target[e] # Null /\ target[e] \in alive /\ AtBound(e, target[e])

\* the AnimationFinished event that is delivered next names entity e
Finishing(e) ==
    /\ pc = "dispatcher"
    /\ queue # <<>>
    /\ Head(queue).type = "AnimationFinished"
    /\ Head(queue).entity = e

\* C18: when an AnimationFinished for an existing Enemy entity is processed,
\* ActionLock is removed from it if present and exactly one PlayAnimation is
\* enqueued for it: ("idle", loop = true) if it holds BlockedBy, otherwise
\* ("walk", loop = true).
C18_EnemyFinished ==
    [][\A e \in alive :
            (Finishing(e) /\ kind[e] \in EnemyKinds)
            => /\ ActionLockTag' = ActionLockTag \ {e}
               /\ queue' = Tail(queue) \o
                    <<[type |-> "PlayAnimation", entity |-> e,
                       animation_id |-> (IF blocked_by[e] # Null THEN "idle" ELSE "walk"),
                       loop |-> TRUE]>>]_vars

C18_Witness ==
    /\ pc = "dispatcher"
    /\ Len(queue) = 2
    /\ \E e, f \in alive :
            /\ kind[e] \in EnemyKinds /\ blocked_by[e] # Null /\ e \notin ActionLockTag
            /\ kind[f] \in EnemyKinds /\ blocked_by[f] = Null /\ f \notin ActionLockTag
            /\ queue[1] = [type |-> "PlayAnimation", entity |-> e,
                           animation_id |-> "idle", loop |-> TRUE]
            /\ queue[2] = [type |-> "PlayAnimation", entity |-> f,
                           animation_id |-> "walk", loop |-> TRUE]

\* C19: when an AnimationFinished for an existing Player entity is processed,
\* ActionLock is removed if present and exactly one PlayAnimation("idle",
\* loop = true) is enqueued; for an existing entity that is neither Enemy nor
\* Player, ActionLock is removed if present and nothing is enqueued.
C19_PlayerOrOtherFinished ==
    [][\A e \in alive :
            (Finishing(e) /\ kind[e] \notin EnemyKinds)
            => /\ ActionLockTag' = ActionLockTag \ {e}
               /\ queue' = Tail(queue) \o
                    (IF kind[e] \in PlayerKinds
                     THEN <<[type |-> "PlayAnimation", entity |-> e,
                             animation_id |-> "idle", loop |-> TRUE]>>
                     ELSE <<>>)]_vars

C19_Witness ==
    /\ pc = "dispatcher"
    /\ \E e, f \in alive :
            /\ kind[e] \in PlayerKinds
            /\ kind[f] \notin (PlayerKinds \cup EnemyKinds)
            /\ e \notin ActionLockTag /\ f \notin ActionLockTag
            /\ queue = <<[type |-> "PlayAnimation", entity |-> e,
                          animation_id |-> "idle", loop |-> TRUE]>>
            /\ animation[e].id = "none"

\* C20: an AnimationFinished event that names an entity which no longer
\* exists is ignored: processing it changes no component of any entity and
\* enqueues no PlayAnimation.
C20_FinishedForDestroyedIgnored ==
    [][\A e \in Ents :
            (Finishing(e) /\ e \notin alive)
            => /\ queue' = Tail(queue)
               /\ UNCHANGED <<entVars, moveVars, statVars, refVars, tagVars, viewVars>>]_vars

C20_Witness ==
    /\ pc = "dispatcher"
    /\ queue = <<>>
    /\ alive # {}
    /\ ActionLockTag = alive
    /\ \A e \in Ents : animation[e].id = "none"

\* the entities named by the AnimationFinished events of q
FinishedIn(q) == {q[i].entity : i \in {j \in 1 .. Len(q) : q[j].type = "AnimationFinished"}}

\* the last PlayAnimation request of q for e
LastRequest(q, e) == PlayRequests(q, e)[Len(PlayRequests(q, e))]

NearTargetNode(e) ==
    /\ target_waypoint_id_[e] \in WaypointIds
    /\ Len(position_[e]) = 2
    /\ LET n == waypoint_nodes[target_waypoint_id_[e]].position_
       IN (n[1] - position_[e][1]) * (n[1] - position_[e][1])
            + (n[2] - position_[e][2]) * (n[2] - position_[e][2]) < 5 * 5

\* the run of Path Navigation being taken reaches enemy e: no enemy
\* visited before it has, or is given, an id that is not a key of the graph
ReachedByRun(e) ==
    \A f \in alive :
        (kind[f] \in EnemyKinds /\ f > e)
        => /\ target_waypoint_id_[f] \in WaypointIds
           /\ target_waypoint_id_'[f] \in WaypointIds

\* the enemies that the run being taken finds at a waypoint without outgoing edges
ArrivingHome ==
    {e \in alive : /\ kind[e] \in EnemyKinds
                   /\ ReachedByRun(e)
                   /\ NearTargetNode(e)
                   /\ waypoint_nodes[target_waypoint_id_[e]].next_node_ids_ = <<>>}

\* C22: Path Navigation, for every enemy it processes that is closer than
\* the arrival threshold to a target waypoint without outgoing edges,
\* attaches Dead and leaves velocity and target_waypoint_id unchanged; the
\* run enqueues exactly one EnemyArriveHome for each such enemy, whatever
\* delta_time is.
C22_ArrivalAtHome ==
    [][pc = "follow_path" =>
            /\ \A e \in ArrivingHome :
                    /\ e \in DeadTag'
                    /\ velocity_'[e] = velocity_[e]
                    /\ target_waypoint_id_'[e] = target_waypoint_id_[e]
            /\ Len(SelectSeq(Enqueued, LAMBDA ev : ev.type = "EnemyArriveHome"))
                    = Cardinality(ArrivingHome)
            /\ DeadTag' \ DeadTag = ArrivingHome]_vars

C22_Witness ==
    /\ pc = "block"
    /\ delta_time = 2
    /\ \E e \in alive :
            /\ e \in DeadTag
            /\ velocity_[e] = <<20, 0>>
            /\ position_[e] = <<116, 0>>
            /\ target_waypoint_id_[e] = 11
            /\ Len(SelectSeq(queue, LAMBDA ev : ev.type = "EnemyArriveHome")) = 1

\* the enemies that the run being taken finds at a waypoint with outgoing edges
ArrivingAtBranch ==
    {e \in alive : /\ kind[e] \in EnemyKinds
                   /\ ReachedByRun(e)
                   /\ NearTargetNode(e)
                   /\ waypoint_nodes[target_waypoint_id_[e]].next_node_ids_ # <<>>}

\* the vector of length speed that points from position p to position n (both on one axis)
Towards(p, n, speed) ==
    <<(IF n[1] > p[1] THEN speed ELSE IF n[1] < p[1] THEN 0 - speed ELSE 0),
      (IF n[2] > p[2] THEN speed ELSE IF n[2] < p[2] THEN 0 - speed ELSE 0)>>

\* C23: Path Navigation, for every enemy it processes that is closer than
\* the arrival threshold to a target waypoint with outgoing edges, sets
\* target_waypoint_id to one of that waypoint's next ids (one step along the
\* path, even when the next node is within the threshold too) and, when the
\* new node is a node of the graph at another place than the enemy, sets the
\* velocity towards the new node; it does not attach Dead.
C23_ArrivalAtBranch ==
    [][pc = "follow_path" =>
            \A e \in ArrivingAtBranch :
                LET next == waypoint_nodes[target_waypoint_id_[e]].next_node_ids_
                    new  == target_waypoint_id_'[e]
                IN /\ \E i \in 1 .. Len(next) : new = next[i]
                   /\ e \notin DeadTag'
                   /\ (new \in WaypointIds /\ waypoint_nodes[new].position_ # position_[e])
                        => velocity_'[e] =
                             Towards(position_[e], waypoint_nodes[new].position_, EnemySpeed(kind[e]))]_vars

C23_Witness ==
    /\ pc = "block"
    /\ position_[1] = <<100, 0>> /\ position_[2] = <<100, 0>>
    /\ target_waypoint_id_[1] = 12 /\ velocity_[1] = <<20, 0>>
    /\ target_waypoint_id_[2] = 11 /\ velocity_[2] = <<20, 0>>


\* the enemies at which the run being taken meets an id that is not a key of
\* the graph: the id they hold, or the id they are given at a branch
FailingLookup ==
    {e \in alive : /\ kind[e] \in EnemyKinds
                   /\ ReachedByRun(e)
                   /\ \/ target_waypoint_id_[e] \notin WaypointIds
                      \/ target_waypoint_id_'[e] \notin WaypointIds}

\* C24: when the id an enemy holds, or the id just chosen for it, is not a
\* key of the waypoint graph, Path Navigation fails with an out-of-range
\* error: the update does not go on to the next system, the enemy's
\* velocity is not written, and nothing runs after the failure.
C24_UnknownWaypointIsFatal ==
    /\ [][pc = "follow_path" =>
            \A e \in FailingLookup :
                /\ err' = "out_of_range"
                /\ pc' = pc
                /\ velocity_'[e] = velocity_[e]]_vars
    /\ [][err # "out_of_range"]_vars

C24_Witness ==
    /\ pc = "follow_path"
    /\ err = "out_of_range"
    /\ \E e \in alive : /\ target_waypoint_id_[e] = UnknownId
                        /\ position_[e] = <<100, 0>>
                        /\ velocity_[e] = <<0 - 20, 0>>


\* the enemies whose velocity the run being taken writes
GivenVelocity ==
    {e \in alive : /\ kind[e] \in EnemyKinds
                   /\ ReachedByRun(e)
                   /\ Len(position_[e]) = 2
                   /\ e \notin FailingLookup
                   /\ e \notin ArrivingHome}

\* C25: Path Navigation sets an enemy's velocity to the zero vector when the
\* direction to its (possibly newly chosen) target waypoint is the zero
\* vector, and otherwise to the vector of magnitude speed that points at
\* the waypoint.
C25_ZeroDirectionGivesZeroVelocity ==
    [][pc = "follow_path" =>
            \A e \in GivenVelocity :
                LET n == waypoint_nodes[target_waypoint_id_'[e]].position_
                IN velocity_'[e] = Towards(position_[e], n, EnemySpeed(kind[e]))]_vars

\* C25, the part the code keeps: for a direction other than the zero vector
\* the velocity points at the waypoint with magnitude speed.
C25_NonZeroDirection ==
    [][pc = "follow_path" =>
            \A e \in GivenVelocity :
                LET n == waypoint_nodes[target_waypoint_id_'[e]].position_
                IN n # position_[e]
                     => velocity_'[e] = Towards(position_[e], n, EnemySpeed(kind[e]))]_vars


\* the referent the claim's priority list selects for entity e, Null when none
FacingReferent(e) ==
    IF target[e] # Null /\ target[e] \in alive THEN target[e]
    ELSE IF blocked_by[e] # Null /\ blocked_by[e] \in alive THEN blocked_by[e]
    ELSE Null

\* e faces left according to the priority list; e has a facing source
DecidedLeft(e) ==
    IF FacingReferent(e) # Null
    THEN position_[FacingReferent(e)][1] < position_[e][1]
    ELSE velocity_[e][1] < 0

\* one of the three sources applies to e
HasFacingSource(e) ==
    FacingReferent(e) # Null \/ (~IsNaN(velocity_[e]) /\ velocity_[e][1] # 0)

\* the facing the sprite of e shows after the step: its flip, read against
\* the default facing of its art
FacesLeftAfter(e) == is_flipped_'[e] # HasFaceLeftTag(e)

C27_FlipIsFacingXorTag ==
    [][pc = "orientation" =>
            \A e \in alive :
                HasFacingSource(e)
                => is_flipped_'[e] = (IF HasFaceLeftTag(e) THEN ~DecidedLeft(e) ELSE DecidedLeft(e))]_vars

C27_Witness ==
    /\ pc = "ysort"
    /\ \E e, f \in alive :
        /\ HasFaceLeftTag(e) /\ ~HasFaceLeftTag(f)
        /\ target[e] \in alive /\ target[f] = target[e]
        /\ position_[target[e]][1] < position_[e][1]
        /\ ~is_flipped_[e]
        /\ is_flipped_[f]


\* the EnemyArriveHome events of a queue
ArriveHomeIn(q) == SelectSeq(q, LAMBDA ev : ev.type = "EnemyArriveHome")

\* C29: an entity tagged Dead by Path Navigation still exists when the
\* events of that tick are delivered: when the dispatcher runs, every
\* Dead-tagged entity is in the registry and the queue holds one
\* EnemyArriveHome event for each of them; a Dead-tagged entity is
\* destroyed only by Entity Removal, which finds the queue empty.
C29_DeadOutlivesDelivery ==
    /\ [](pc = "dispatcher" =>
            /\ DeadTag \subseteq alive
            /\ Len(ArriveHomeIn(queue)) = Cardinality(DeadTag))
    /\ [][(DeadTag \cap (alive \ alive')) # {} =>
            pc = "remove_dead" /\ queue = <<>>]_vars

C29_Witness ==
    /\ pc = "input"
    /\ queue = <<>>
    /\ "follow_path" \in Range(ran)
    /\ \E e \in DeadTag : e \in alive /\ kind[e] \in EnemyKinds


\* C30: a ranged enemy that holds ActionLock does not move: the zero
\* velocity the ranged dispatch has written stays zero, and the position
\* stays the same, in every step after which the lock is still held.
C30_LockedEnemyDoesNotMove ==
    [][\A e \in alive :
            (/\ kind[e] = "enemy_ranged"
             /\ e \in ActionLockTag /\ e \in ActionLockTag'
             /\ velocity_[e] = Zero)
            => /\ velocity_'[e] = Zero
               /\ position_'[e] = position_[e]]_vars


\* C31: whenever Attack Dispatch dispatches a ranged enemy or a friendly
\* unit, the referent of that unit's target exists at that moment and lies
\* within (range + unit_radius) of it; the step between Target Acquisition
\* and Attack Dispatch moves and destroys nothing.
C31_DispatchedTargetInRange ==
    /\ [][pc = "attack_starter" =>
            \A h \in handled' : h[2] \in {"ranged", "friendly"} => ReferentWithin(h[1])]_vars
    /\ [][pc = "timer" => position_' = position_ /\ alive' = alive /\ target' = target]_vars

C31_Witness ==
    /\ pc = "movement"
    /\ \E g, h \in handled :
        /\ g[2] = "ranged" /\ h[2] = "friendly"
        /\ ReferentWithin(g[1]) /\ ReferentWithin(h[1])
        /\ target[h[1]] = g[1]


\* C32: in every reachable state an entity that holds AttackReady has
\* atk_timer >= atk_interval, and an entity that Attack Dispatch has just
\* dispatched has atk_timer = 0 and no AttackReady.
C32_ReadyMeansElapsed ==
    /\ \A e \in alive : e \in AttackReadyTag => atk_timer_[e] >= StatsAtkInterval(kind[e])
    /\ pc = "movement" =>
            \A e \in Dispatched : atk_timer_[e] = 0 /\ e \notin AttackReadyTag

C32_Witness ==
    /\ pc = "movement"
    /\ \E e, f \in alive :
        /\ e \in Dispatched /\ atk_timer_[e] = 0 /\ StatsAtkInterval(kind[e]) = 2
        /\ f \notin Dispatched /\ f \in AttackReadyTag
        /\ atk_timer_[f] = StatsAtkInterval(kind[f])


\* the least number of ticks whose delta_time adds up to the interval of e
TicksNeeded(e) ==
    (StatsAtkInterval(kind[e]) + delta_time - 1) \div delta_time

\* C33: between two consecutive dispatches of an entity Cooldown Timer has
\* accumulated at least atk_interval for it: when it is dispatched, its
\* atk_timer is at least atk_interval and Cooldown Timer has run at least
\* ceil(atk_interval / dt) times since its previous dispatch; one run
\* handles it once; atk_timer is raised only by Cooldown Timer, by
\* delta_time.
C33_DispatchRateBounded ==
    /\ [][pc = "attack_starter" =>
            \A e \in {h[1] : h \in handled'} :
                /\ atk_timer_[e] >= StatsAtkInterval(kind[e])
                /\ ticks_waited[e] >= TicksNeeded(e)
                /\ Cardinality({h \in handled' : h[1] = e}) = 1]_vars
    /\ [][\A e \in alive :
            (e \in alive' /\ atk_timer_'[e] > atk_timer_[e])
                => pc = "timer" /\ atk_timer_'[e] = atk_timer_[e] + delta_time]_vars

C33_Witness ==
    /\ pc = "movement"
    /\ \E e, f \in Dispatched :
        /\ kind[e] = "enemy_ranged" /\ animation[e].id = "ranged_attack"
        /\ ticks_waited[e] = 0
        /\ StatsAtkInterval(kind[f]) = 1 /\ animation[f].id = "attack"


C35_PlayersNeverLocked ==
    /\ [](\A e \in alive : kind[e] \in PlayerKinds => e \notin ActionLockTag)
    /\ [][\A e \in ActionLockTag' \ ActionLockTag :
            /\ pc = "attack_starter"
            /\ kind[e] \in EnemyKinds
            /\ \E h \in handled' : h[1] = e /\ h[2] \in {"melee", "ranged"}]_vars

C35_Witness ==
    /\ pc = "input"
    /\ \E e, p \in alive :
        /\ kind[e] \in EnemyKinds /\ e \in ActionLockTag
        /\ kind[p] \in PlayerKinds /\ animation[p].id \in {"attack", "heal"}
        /\ p \notin ActionLockTag


\* the steps of one Target Acquisition run
AcquisitionSteps ==
    {"updateHasTarget", "updateNoTargetPlayer", "updateNoTargetEnemy", "updateHealer"}

\* C36: no step of Target Acquisition replaces or removes the
\* TargetComponent of a unit that is not a healer while its referent exists,
\* has a position and is within range, whatever other candidates there are.
C36_ValidTargetKept ==
    [][(pc \in AcquisitionSteps) =>
            \A e \in alive :
                (kind[e] # "witch" /\ target[e] # Null /\ ReferentWithin(e))
                => target'[e] = target[e]]_vars

C36_Witness ==
    /\ pc = "timer"
    /\ \E p \in alive :
        /\ kind[p] \in {"warrior", "archer"}
        /\ target[p] = 2 /\ ReferentWithin(p)
        /\ p \notin acquired
        /\ 1 \in alive /\ position_[1] = position_[p] /\ position_[2] # position_[p]
    /\ \E e, q \in alive :
        /\ kind[e] = "enemy_ranged" /\ target[e] # Null /\ ReferentWithin(e)
        /\ e \notin acquired
        /\ kind[q] \in PlayerKinds /\ q > target[e] /\ Within(e, q)


\* C37: when a Target Acquisition run has ended, the referent of a
\* non-healer player's target is an enemy, the referent of an enemy's target
\* is a player unit, the referent of a healer's target is a player unit
\* with InjuredTag; an enemy that is not ranged holds no TargetComponent in
\* any state.
C37_TargetRoles ==
    /\ pc = "timer" =>
            \A e \in alive :
                target[e] # Null =>
                    IF kind[e] = "witch"
                    THEN kind[target[e]] \in PlayerKinds /\ target[e] \in InjuredTag
                    ELSE IF kind[e] \in PlayerKinds
                         THEN kind[target[e]] \in EnemyKinds
                         ELSE kind[target[e]] \in PlayerKinds
    /\ \A e \in alive : kind[e] = "enemy_melee" => target[e] = Null

C37_Witness ==
    /\ pc = "timer"
    /\ \E h, p, e \in alive :
        /\ kind[h] = "witch" /\ target[h] = p
        /\ kind[p] \in {"warrior", "archer"} /\ target[p] # Null
        /\ kind[e] = "enemy_ranged" /\ target[e] # Null
    /\ \E m \in alive : kind[m] = "enemy_melee" /\ blocked_by[m] # Null


\* the ids the edges of the nodes in S lead to, as far as S are keys
Successors(S) ==
    UNION {Range(waypoint_nodes[i].next_node_ids_) : i \in S \cap WaypointIds}

RECURSIVE ReachableIds(_)
\* the ids that can be reached from the ids in S along edges of the graph
ReachableIds(S) ==
    IF Successors(S) \subseteq S THEN S ELSE ReachableIds(S \cup Successors(S))

\* the keys from which only keys can be reached
WellFormedIds == {i \in WaypointIds : ReachableIds({i}) \subseteq WaypointIds}

\* C38: the enemies are spawned at the start point, from which every edge
\* leads to a key of the graph; then in every reachable state the
\* target_waypoint_id of every enemy is a key from which only keys are
\* reached and the lookup never fails, and target_waypoint_id of an
\* existing enemy is changed only by Path Navigation, to an id the node it
\* named lists as next.
C38_TargetWaypointIsKey ==
    /\ [](/\ StartPoint \in WellFormedIds
          /\ err # "out_of_range"
          /\ \A e \in alive : kind[e] \in EnemyKinds => target_waypoint_id_[e] \in WellFormedIds)
    /\ [][\A e \in alive :
            (e \in alive' /\ target_waypoint_id_'[e] # target_waypoint_id_[e])
            => /\ pc = "follow_path"
               /\ kind[e] \in EnemyKinds
               /\ target_waypoint_id_'[e]
                    \in Range(waypoint_nodes[target_waypoint_id_[e]].next_node_ids_)]_vars

C38_Witness ==
    /\ pc = "block"
    /\ \E e, f \in alive :
        /\ target_waypoint_id_[e] = 2 /\ target_waypoint_id_[f] = 3
        /\ position_[e] = waypoint_nodes[1].position_
        /\ position_[f] = waypoint_nodes[1].position_


\* C39: an enemy that heads for the childless node 11, its velocity set
\* by Path Navigation only, eventually comes within the arrival threshold
\* of the node and is tagged Dead when every frame has the same length
\* (here 1, with speed * dt = 20 above the arrival threshold).
C39_EnemyEventuallyArrives ==
    \A e \in Enemies :
        (e \in alive /\ target_waypoint_id_[e] = 11)
            ~> (e \in DeadTag \/ delta_time = 2 \/ err # "none")


\* C40: the attach operations that need the component to be absent meet no
\* holder: Path Navigation attaches Dead only to enemies without Dead,
\* Cooldown Timer attaches AttackReady (to an entity whose timer it has
\* advanced to the interval) only where AttackReady is absent, and the
\* Player -> Enemy and Enemy -> Player passes write a TargetComponent only
\* where none is held.
C40_AttachOnlyWhenAbsent ==
    /\ [][pc = "follow_path" => \A e \in ArrivingHome : e \notin DeadTag]_vars
    /\ [][pc = "timer" =>
            \A e \in alive :
                (atk_timer_'[e] # atk_timer_[e] /\ atk_timer_'[e] >= StatsAtkInterval(kind[e]))
                => e \notin AttackReadyTag]_vars
    /\ [][(pc \in {"updateNoTargetPlayer", "updateNoTargetEnemy"}) =>
            \A e \in alive :
                (target'[e] # Null /\ target'[e] # target[e]) => target[e] = Null]_vars

C40_Witness ==
    /\ pc = "attack_starter"
    /\ \E e \in alive : e \in DeadTag /\ kind[e] \in EnemyKinds
    /\ \E f \in alive : f \in AttackReadyTag /\ f \notin pending
    /\ acquired # {}

====
